---- MODULE Spec2Model ----
(***************************************************************************)
(* A model of components of the Spark operator, among them:                *)
(*   - the pod event router  (pkg/controller/sparkapplication/             *)
(*                            spark_pod_eventhandler.go),                  *)
(*   - the mutating admission webhook handler (pkg/webhook/webhook.go),    *)
(*   - the certificate provider (pkg/webhook/certs.go).                    *)
(* Each component has its own specification over its own variables; the    *)
(* variables of the other components stay at their initial values.         *)
(***************************************************************************)
EXTENDS Integers, Sequences, FiniteSets, TLC

VARIABLES
    applicationLister,  \* sparkPodEventHandler.applicationLister: (ns, name) -> app
    delivered,          \* the notification the informer dispatched last
    enqueued,           \* the keys that notification passed to enqueueFunc, in order
    handlerPanicked,    \* the handler ended in a runtime panic
    webhookLister,      \* WebHook.lister: (ns, name) -> app
    sparkJobNamespace,  \* WebHook.sparkJobNamespace
    httpRequest,        \* the HTTP request serve handled last
    httpResponse,       \* what serve answered, and what it did on the way
    certFiles,          \* the server certificate and key files on disk
    currentCert,        \* certProvider.currentCert
    certPointerMutex,   \* certProvider.certPointerMutex: the writer and the readers in
    tickerC,            \* certProvider.ticker.C holds a tick (a channel of capacity 1)
    tickerStopped,      \* ticker.Stop() was called
    stopChannelClosed,  \* certProvider.stopChannel is closed
    reloader,           \* the goroutine of Start: its position and its local cert
    stopper,            \* the position of the one call of certProvider.Stop
    handshakes,         \* the GetCertificate calls in progress
    reload,             \* the last call of updateCert: the certificate active before
                        \* it, the files it read, and how far it got
    webhookConfiguration, \* the API server's MutatingWebhookConfiguration of the
                        \* webhook's configuration name
    caCertFile,         \* the CA certificate file on disk
    hook,               \* the WebHook of this process: how far Start and Stop got
    server,             \* WebHook.server: serving, and the shutdown it was asked for
    calls,              \* the registration calls completed so far, oldest first
    appStatus,          \* the status of a SparkApplication as exportMetrics saw it last
    metricEffects,      \* what the last call of exportMetrics did to each metric
    configMaps,         \* the API server's ConfigMap of the application's Prometheus
                        \* ConfigMap name, in each namespace
    monitoredApp,       \* the SparkApplication object configPrometheusMonitoring is given
    invocation,         \* the call of configPrometheusMonitoring: its position, the
                        \* ConfigMap it got, the writes it issued, its result
    foreignWrites,      \* the writes of the ConfigMap by others so far
    scheduledApp,       \* the SparkApplication object Schedule is given
    scheduling,         \* the calls of Schedule so far, and what the last one computed
    crdFiles,           \* the .yaml files under crdsPath, in the order of the walk
    storedCRDs,         \* the API server's CustomResourceDefinitions, by name
    upgrade             \* the call of start: its position in the loop of upgradeCRDs,
                        \* the Updates it issued, its result

routerVars == <<applicationLister, delivered, enqueued, handlerPanicked>>
webhookVars == <<webhookLister, sparkJobNamespace, httpRequest, httpResponse>>

certVars ==
    <<certFiles, currentCert, certPointerMutex, tickerC, tickerStopped,
      stopChannelClosed, reloader, stopper, handshakes, reload>>

lifecycleVars == <<webhookConfiguration, caCertFile, hook, server, calls>>

metricsVars == <<appStatus, metricEffects>>

monitoringVars == <<configMaps, monitoredApp, invocation, foreignWrites>>

schedulerVars == <<scheduledApp, scheduling>>

upgradeVars == <<crdFiles, storedCRDs, upgrade>>

vars ==
    <<routerVars, webhookVars, certVars, lifecycleVars, metricsVars, monitoringVars,
      schedulerVars, upgradeVars>>

\* What the actions of one component leave alone.
NotRouterVars ==
    <<webhookVars, certVars, lifecycleVars, metricsVars, monitoringVars,
      schedulerVars, upgradeVars>>
NotWebhookVars ==
    <<routerVars, certVars, lifecycleVars, metricsVars, monitoringVars,
      schedulerVars, upgradeVars>>
NotCertVars ==
    <<routerVars, webhookVars, lifecycleVars, metricsVars, monitoringVars,
      schedulerVars, upgradeVars>>
NotMetricsVars ==
    <<routerVars, webhookVars, certVars, lifecycleVars, monitoringVars,
      schedulerVars, upgradeVars>>
NotMonitoringVars ==
    <<routerVars, webhookVars, certVars, lifecycleVars, metricsVars,
      schedulerVars, upgradeVars>>
NotSchedulerVars ==
    <<routerVars, webhookVars, certVars, lifecycleVars, metricsVars, monitoringVars,
      upgradeVars>>
NotUpgradeVars ==
    <<routerVars, webhookVars, certVars, lifecycleVars, metricsVars, monitoringVars,
      schedulerVars>>

-----------------------------------------------------------------------------
(* Bounds of the model.                                                    *)

\* Resource versions a pod can carry: 1..MaxResourceVersion.
MaxResourceVersion == 2
\* Key pairs ever issued to the webhook: 1..MaxCertificates.
MaxCertificates == 2
\* TLS handshakes that can be in progress at once.
MaxHandshakes == 2

Namespaces == {"ns1", "ns2"}
AppNames == {"app1"}
SubmissionIDs == {"s1", "s2"}
ResourceVersions == 1..MaxResourceVersion

-----------------------------------------------------------------------------
(* Pods and their labels.                                                  *)

\* pkg/config: the label keys and role values the operator puts on its pods.
SparkAppNameLabel == "sparkoperator.k8s.io/app-name"
SubmissionIDLabel == "sparkoperator.k8s.io/submission-id"
LaunchedBySparkOperatorLabel == "sparkoperator.k8s.io/launched-by-spark-operator"
SparkRoleLabel == "spark-role"
SparkDriverRole == "driver"
SparkExecutorRole == "executor"

\* Marks a label key that a pod does not carry.
Absent == "<absent>"

\* The label map with exactly the keys whose value is not Absent.
LabelMap(launchedBy, role, appName, submissionID) ==
    LET all == [k \in {LaunchedBySparkOperatorLabel, SparkRoleLabel,
                       SparkAppNameLabel, SubmissionIDLabel} |->
                  CASE k = LaunchedBySparkOperatorLabel -> launchedBy
                    [] k = SparkRoleLabel -> role
                    [] k = SparkAppNameLabel -> appName
                    [] OTHER -> submissionID]
    IN  [k \in {x \in DOMAIN all : all[x] # Absent} |-> all[k]]

\* Go's m[k] on a map[string]string: the zero value "" for a missing key.
Label(labels, k) == IF k \in DOMAIN labels THEN labels[k] ELSE ""

\* Go's v, ok := m[k].
HasLabel(labels, k) == k \in DOMAIN labels

RouterLabelMaps ==
    { LabelMap(lb, role, an, sid) :
        lb \in {Absent, "true"},
        role \in {Absent, SparkDriverRole, SparkExecutorRole},
        an \in {Absent} \cup AppNames,
        sid \in {Absent} \cup SubmissionIDs }

\* *apiv1.Pod, as far as the router reads it.
RouterPods ==
    [namespace : Namespaces, resourceVersion : ResourceVersions, labels : RouterLabelMaps]

-----------------------------------------------------------------------------
(* Objects an informer hands to the handlers (interface{} values).         *)

PodObj(p) == [type |-> "Pod", pod |-> p]
\* A nil interface value.
NilObj == [type |-> "nil"]
\* An object of another type than *apiv1.Pod.
OtherObj == [type |-> "Service"]
\* A *apiv1.Pod that is a nil pointer.
NilPodObj == [type |-> "NilPod"]
\* cache.DeletedFinalStateUnknown{Obj: inner}
Tombstone(inner) == [type |-> "DeletedFinalStateUnknown", obj |-> inner]

DeletedObjects ==
    { PodObj(p) : p \in RouterPods }
        \cup { Tombstone(PodObj(p)) : p \in RouterPods }
        \cup { Tombstone(NilObj), Tombstone(OtherObj), Tombstone(NilPodObj), OtherObj }

-----------------------------------------------------------------------------
(* The cached application index.                                           *)

NoApp == [found |-> FALSE]
App(sid) == [found |-> TRUE, submissionID |-> sid]
AppKeys == Namespaces \X AppNames
RouterApps == {NoApp} \cup { App(sid) : sid \in SubmissionIDs }

\* lister.SparkApplications(ns).Get(name): the app, or NoApp for the not-found error.
ListerGet(lister, ns, name) ==
    IF <<ns, name>> \in DOMAIN lister THEN lister[<<ns, name>>] ELSE NoApp

-----------------------------------------------------------------------------
(* The pod event router.                                                   *)

\* getAppName(pod): the application-name label and whether the pod carries it.
getAppName(pod) ==
    [name |-> Label(pod.labels, SparkAppNameLabel),
     exists |-> HasLabel(pod.labels, SparkAppNameLabel)]

\* createMetaNamespaceKey(namespace, name): "namespace/name".
createMetaNamespaceKey(namespace, name) == <<namespace, name>>

\* What a handler call did: the keys it enqueued and whether it panicked.
Outcome(keys, panicked) == [enq |-> keys, panic |-> panicked]

\* A faulty variant: the submission ID of the application is not compared.
MutEnqueueIgnoresSubmissionID(pod) ==
    LET an == getAppName(pod)
    IN  IF ~an.exists THEN Outcome(<<>>, FALSE)
        ELSE IF HasLabel(pod.labels, SubmissionIDLabel)
                  /\ ~ListerGet(applicationLister, pod.namespace, an.name).found
             THEN Outcome(<<>>, FALSE)
        ELSE Outcome(<<createMetaNamespaceKey(pod.namespace, an.name)>>, FALSE)

\* A faulty variant: the key is enqueued twice.
MutEnqueueTwice(pod) ==
    LET an == getAppName(pod)
        key == createMetaNamespaceKey(pod.namespace, an.name)
    IN  IF ~an.exists THEN Outcome(<<>>, FALSE)
        ELSE IF HasLabel(pod.labels, SubmissionIDLabel)
                  /\ LET app == ListerGet(applicationLister, pod.namespace, an.name)
                     IN  ~app.found
                           \/ app.submissionID # Label(pod.labels, SubmissionIDLabel)
             THEN Outcome(<<>>, FALSE)
        ELSE Outcome(<<key, key>>, FALSE)

enqueueSparkAppForUpdate(pod) ==
    LET an == getAppName(pod)
    IN  IF ~an.exists THEN Outcome(<<>>, FALSE)
        ELSE IF HasLabel(pod.labels, SubmissionIDLabel)
                  /\ LET app == ListerGet(applicationLister, pod.namespace, an.name)
                     IN  ~app.found
                           \/ app.submissionID # Label(pod.labels, SubmissionIDLabel)
             THEN Outcome(<<>>, FALSE)
        ELSE Outcome(<<createMetaNamespaceKey(pod.namespace, an.name)>>, FALSE)

\* obj.(*apiv1.Pod): the one-value type assertion panics on any other dynamic type.
onPodAdded(obj) ==
    IF obj.type # "Pod" THEN Outcome(<<>>, TRUE)
    ELSE enqueueSparkAppForUpdate(obj.pod)

\* A faulty variant: the resource versions are not compared.
MutUpdateNoVersionCheck(old, updated) ==
    IF old.type # "Pod" \/ updated.type # "Pod" THEN Outcome(<<>>, TRUE)
    ELSE enqueueSparkAppForUpdate(updated.pod)

onPodUpdated(old, updated) ==
    IF old.type # "Pod" \/ updated.type # "Pod" THEN Outcome(<<>>, TRUE)
    ELSE IF updated.pod.resourceVersion = old.pod.resourceVersion
         THEN Outcome(<<>>, FALSE)
    ELSE enqueueSparkAppForUpdate(updated.pod)

\* The type switch takes *apiv1.Pod and cache.DeletedFinalStateUnknown; in the
\* second case the wrapped object is asserted to be a *apiv1.Pod without a check,
\* which panics unless it is one (a nil *apiv1.Pod passes and is dropped).
onPodDeleted(obj) ==
    CASE obj.type = "Pod" -> enqueueSparkAppForUpdate(obj.pod)
      [] obj.type = "DeletedFinalStateUnknown" ->
            IF obj.obj.type = "Pod" THEN enqueueSparkAppForUpdate(obj.obj.pod)
            ELSE IF obj.obj.type = "NilPod" THEN Outcome(<<>>, FALSE)
            ELSE Outcome(<<>>, TRUE)
      [] OTHER -> Outcome(<<>>, FALSE)

-----------------------------------------------------------------------------
(* Actions of the pod event router.                                        *)

RouterInit ==
    /\ applicationLister = [k \in AppKeys |-> NoApp]
    /\ delivered = [kind |-> "none"]
    /\ enqueued = <<>>
    /\ handlerPanicked = FALSE

\* The informer dispatches notifications until a handler panic ends the process.
\* The watch machinery brings the cached index up to date for one application.
ListerSync ==
    /\ \E k \in AppKeys, a \in RouterApps :
          /\ applicationLister[k] # a
          /\ applicationLister' = [applicationLister EXCEPT ![k] = a]
    /\ UNCHANGED <<delivered, enqueued, handlerPanicked>>
    /\ UNCHANGED NotRouterVars

Handled(notification, outcome) ==
    /\ delivered' = notification
    /\ enqueued' = outcome.enq
    /\ handlerPanicked' = outcome.panic
    /\ UNCHANGED applicationLister
    /\ UNCHANGED NotRouterVars

NotifyAdd ==
    /\ ~handlerPanicked
    /\ \E p \in RouterPods :
        Handled([kind |-> "add", obj |-> PodObj(p)], onPodAdded(PodObj(p)))

NotifyUpdate ==
    /\ ~handlerPanicked
    /\ \E p \in RouterPods, rv \in ResourceVersions :
        LET old == [p EXCEPT !.resourceVersion = rv]
        IN  Handled([kind |-> "update", old |-> PodObj(old), obj |-> PodObj(p)],
                    onPodUpdated(PodObj(old), PodObj(p)))

NotifyDelete ==
    /\ ~handlerPanicked
    /\ \E o \in DeletedObjects :
        Handled([kind |-> "delete", obj |-> o], onPodDeleted(o))

RouterNext == ListerSync \/ NotifyAdd \/ NotifyUpdate \/ NotifyDelete

-----------------------------------------------------------------------------
(* The admission webhook: requests.                                        *)

\* metav1.GroupVersionResource
GVR(group, version, resource) == [group |-> group, version |-> version, resource |-> resource]
podResource == GVR("", "v1", "pods")
Resources == {podResource, GVR("", "v1", "services")}

\* apiv1.NamespaceAll
NamespaceAll == ""
JobNamespaces == {NamespaceAll} \cup Namespaces

WebhookLabelMaps ==
    { LabelMap(lb, role, an, Absent) :
        lb \in {Absent, "true"},
        role \in {Absent, SparkDriverRole, SparkExecutorRole},
        an \in {Absent, ""} \cup AppNames }

\* corev1.Pod, as far as the webhook reads it.
WebhookPods == [name : {"spark-pod"}, labels : WebhookLabelMaps]

\* Request.Object.Raw: the JSON of a pod, or bytes that are no pod JSON.
BadJSON == [json |-> "bad"]
PodJSON(p) == [json |-> "pod", pod |-> p]
RawObjects == {BadJSON} \cup { PodJSON(p) : p \in WebhookPods }

UIDs == {"uid-1"}
AdmissionRequests ==
    [uid : UIDs, resource : Resources, namespace : Namespaces, raw : RawObjects]

\* An AdmissionReview: Request is a pointer and may be nil.
NoRequest == [present |-> FALSE]
Review(req) == [present |-> TRUE, request |-> req]
AdmissionReviews == {NoRequest} \cup { Review(q) : q \in AdmissionRequests }

\* The bytes of a request body.
EmptyBytes == [enc |-> "empty"]
GarbageBytes == [enc |-> "garbage"]
ReviewBytes(rv) == [enc |-> "review", review |-> rv]
BodyBytes == {EmptyBytes, GarbageBytes} \cup { ReviewBytes(rv) : rv \in AdmissionReviews }

\* r.Body: nil, a reader that fails, or a reader of some bytes.
NilBody == [kind |-> "nil"]
FailingBody == [kind |-> "readError"]
Body(bytes) == [kind |-> "bytes", bytes |-> bytes]
ContentTypes == {"application/json", "text/plain"}

HTTPRequests ==
    [body : {NilBody, FailingBody}, contentType : {"application/json"}]
        \cup [body : { Body(b) : b \in BodyBytes }, contentType : ContentTypes]

\* What the handler cannot see in advance: whether json.Marshal of the patch
\* operations fails and whether the write to the client fails.
Environments == [marshalFails : BOOLEAN, writeFails : BOOLEAN]

\* The applications of the webhook's index, with the patch operations their spec
\* asks for on a pod (the summary of patchSparkPod).
WebhookApp(ops) == [found |-> TRUE, patchOps |-> ops]
WebhookApps == {NoApp, WebhookApp(<<>>), WebhookApp(<<"add /spec/volumes/-">>)}

-----------------------------------------------------------------------------
(* The admission webhook: the handler.                                     *)

StatusOK == 200
StatusBadRequest == 400
StatusUnsupportedMediaType == 415
StatusInternalServerError == 500

\* The error texts of the failures the handler reports.
DecodeError == "couldn't decode the admission review"
UnmarshalError == "invalid pod JSON"
NotFoundError == "sparkapplication not found"
MarshalError == "json: unsupported value"

NoPatch == <<>>
NoPatchType == "<nil>"
PatchTypeJSONPatch == "JSONPatch"
NoResult == [set |-> FALSE]

\* admissionv1beta1.AdmissionResponse
Response(allowed, patch, patchType, result) ==
    [allowed |-> allowed, patch |-> patch, patchType |-> patchType,
     result |-> result, uid |-> ""]

\* A faulty variant: an internal error denies the pod.
MutDenyOnError(err) ==
    Response(FALSE, NoPatch, NoPatchType,
             [set |-> TRUE, message |-> err, code |-> StatusInternalServerError])

toAdmissionResponse(err) ==
    Response(TRUE, NoPatch, NoPatchType,
             [set |-> TRUE, message |-> err, code |-> StatusInternalServerError])

\* A faulty variant: every namespace counts as the job namespace.
MutEveryNamespaceIsJobNamespace(podNs, sparkJobNs) == TRUE

inSparkJobNamespace(podNs, sparkJobNs) ==
    IF sparkJobNs = NamespaceAll THEN TRUE ELSE podNs = sparkJobNs

\* util.IsLaunchedBySparkOperator, util.IsDriverPod, util.IsExecutorPod
IsLaunchedBySparkOperator(pod) == Label(pod.labels, LaunchedBySparkOperatorLabel) = "true"
IsDriverPod(pod) == Label(pod.labels, SparkRoleLabel) = SparkDriverRole
IsExecutorPod(pod) == Label(pod.labels, SparkRoleLabel) = SparkExecutorRole

isSparkPod(pod) ==
    IsLaunchedBySparkOperator(pod) /\ (IsDriverPod(pod) \/ IsExecutorPod(pod))

\* patchSparkPod(pod, app): the patch operations for the pod.
patchSparkPod(pod, app) == app.patchOps

\* What a call of mutatePods did: the response it returned (none for nil), whether
\* it unmarshalled the pod, whether it asked the index, whether it panicked.
NilResponse == [nil |-> TRUE]
Mutated(resp, unmarshalled, looked) ==
    [response |-> resp, unmarshalled |-> unmarshalled, lookedUp |-> looked,
     panic |-> FALSE]
MutatePanic ==
    [response |-> NilResponse, unmarshalled |-> FALSE, lookedUp |-> FALSE, panic |-> TRUE]

\* mutatePods from the unmarshalling of the pod on (review.Request is not nil and
\* names the pod resource).
mutatePodObject(review, lister, sparkJobNs, env) ==
    IF review.request.raw.json # "pod"
    THEN Mutated(toAdmissionResponse(UnmarshalError), TRUE, FALSE)
    ELSE
      LET pod == review.request.raw.pod
          response == Response(TRUE, NoPatch, NoPatchType, NoResult)
          appName == Label(pod.labels, SparkAppNameLabel)
          app == ListerGet(lister, review.request.namespace, appName)
      IN  IF ~isSparkPod(pod) \/ ~inSparkJobNamespace(review.request.namespace, sparkJobNs)
          THEN Mutated(response, TRUE, FALSE)
          ELSE IF appName = "" THEN Mutated(response, TRUE, FALSE)
          ELSE IF ~app.found
               THEN Mutated(toAdmissionResponse(NotFoundError), TRUE, TRUE)
          ELSE IF Len(patchSparkPod(pod, app)) > 0
               THEN IF env.marshalFails
                    THEN Mutated(toAdmissionResponse(MarshalError), TRUE, TRUE)
                    ELSE Mutated([response EXCEPT !.patch = patchSparkPod(pod, app),
                                                  !.patchType = PatchTypeJSONPatch],
                                 TRUE, TRUE)
          ELSE Mutated(response, TRUE, TRUE)

\* A faulty variant: the resource of the request is not checked.
MutMutateAnyResource(review, lister, sparkJobNs, env) ==
    IF ~review.present THEN MutatePanic
    ELSE mutatePodObject(review, lister, sparkJobNs, env)

\* review.Request.Resource dereferences review.Request, which may be nil.
mutatePods(review, lister, sparkJobNs, env) ==
    IF ~review.present THEN MutatePanic
    ELSE IF review.request.resource # podResource
         THEN Mutated(NilResponse, FALSE, FALSE)
    ELSE mutatePodObject(review, lister, sparkJobNs, env)

\* deserializer.Decode(body, nil, review)
Decode(bytes) ==
    IF bytes.enc = "review" THEN [ok |-> TRUE, review |-> bytes.review]
    ELSE [ok |-> FALSE, review |-> NoRequest]

\* What serve did: the status written (0: nothing reached the client), the
\* AdmissionReview it built (if any), and which steps it went through.
NoReview == [built |-> FALSE]
BuiltReview(resp) == [built |-> TRUE, response |-> resp]
Served(status, review, decoded, m) ==
    [status |-> status, review |-> review, decoded |-> decoded,
     mutateCalled |-> m.called, unmarshalled |-> m.unmarshalled,
     lookedUp |-> m.lookedUp, panic |-> m.panic]
NotMutated == [called |-> FALSE, unmarshalled |-> FALSE, lookedUp |-> FALSE, panic |-> FALSE]
Called(m) ==
    [called |-> TRUE, unmarshalled |-> m.unmarshalled, lookedUp |-> m.lookedUp,
     panic |-> m.panic]

\* serve from the decoding of the body on: the admission review itself.
admit(body, env) ==
    LET dec == Decode(body)
        m == IF dec.ok
             THEN mutatePods(dec.review, webhookLister, sparkJobNamespace, env)
             ELSE Mutated(toAdmissionResponse(DecodeError), FALSE, FALSE)
        trace == IF dec.ok THEN Called(m) ELSE NotMutated
        reviewResponse == m.response
        response ==
            IF reviewResponse = NilResponse THEN BuiltReview(NilResponse)
            ELSE BuiltReview(IF dec.review.present
                             THEN [reviewResponse EXCEPT !.uid = dec.review.request.uid]
                             ELSE reviewResponse)
    IN  IF m.panic THEN Served(0, NoReview, TRUE, trace)
        ELSE IF env.writeFails THEN Served(0, response, TRUE, trace)
        ELSE Served(StatusOK, response, TRUE, trace)

\* A faulty variant: the Content-Type is not checked.
MutServeAnyContentType(r, env) ==
    IF r.body.kind = "readError"
    THEN Served(StatusInternalServerError, NoReview, FALSE, NotMutated)
    ELSE IF r.body.kind = "nil" \/ r.body.bytes.enc = "empty"
    THEN Served(StatusBadRequest, NoReview, FALSE, NotMutated)
    ELSE admit(r.body.bytes, env)

serve(r, env) ==
    IF r.body.kind = "readError"
    THEN Served(StatusInternalServerError, NoReview, FALSE, NotMutated)
    ELSE IF r.body.kind = "nil" \/ r.body.bytes.enc = "empty"
    THEN Served(StatusBadRequest, NoReview, FALSE, NotMutated)
    ELSE IF r.contentType # "application/json"
    THEN Served(StatusUnsupportedMediaType, NoReview, FALSE, NotMutated)
    ELSE admit(r.body.bytes, env)

-----------------------------------------------------------------------------
(* Actions of the admission webhook.                                       *)

WebhookIdle ==
    /\ webhookLister = [k \in AppKeys |-> NoApp]
    /\ sparkJobNamespace = NamespaceAll
    /\ httpRequest = [kind |-> "none"]
    /\ httpResponse = [kind |-> "none"]

\* New(..., jobNamespace): the webhook is built for one job namespace, or for all.
WebhookInit ==
    /\ webhookLister = [k \in AppKeys |-> NoApp]
    /\ sparkJobNamespace \in JobNamespaces
    /\ httpRequest = [kind |-> "none"]
    /\ httpResponse = [kind |-> "none"]

\* The watch machinery brings the webhook's index up to date for one application.
WebhookListerSync ==
    /\ \E k \in AppKeys, a \in WebhookApps :
          /\ webhookLister[k] # a
          /\ webhookLister' = [webhookLister EXCEPT ![k] = a]
    /\ UNCHANGED <<sparkJobNamespace, httpRequest, httpResponse>>
    /\ UNCHANGED NotWebhookVars

\* The HTTP server calls serve for one request.
Serve ==
    /\ \E r \in HTTPRequests, env \in Environments :
          /\ httpRequest' = [kind |-> "request", request |-> r]
          /\ httpResponse' = serve(r, env)
    /\ UNCHANGED <<webhookLister, sparkJobNamespace>>
    /\ UNCHANGED NotWebhookVars

WebhookNext == WebhookListerSync \/ Serve

-----------------------------------------------------------------------------
(* The certificate provider.                                               *)

Certificates == 1..MaxCertificates
Handshakes == 1..MaxHandshakes

\* A *tls.Certificate that points at nothing loaded.
NoCertificate == 0

\* The files hold the key pair of one certificate, or something that is none.
BadFiles == [valid |-> FALSE]
GoodFiles(c) == [valid |-> TRUE, cert |-> c]
FileStates == {BadFiles} \cup { GoodFiles(c) : c \in Certificates }

\* tls.LoadX509KeyPair(serverCertFile, serverKeyFile)
LoadX509KeyPair(files) ==
    IF files.valid THEN [err |-> FALSE, cert |-> files.cert]
    ELSE [err |-> TRUE, cert |-> NoCertificate]

Unlocked == [writer |-> FALSE, readers |-> 0]

Idle == [pc |-> "idle"]
NoReload == [result |-> "none"]

CertInit ==
    /\ certFiles \in { GoodFiles(c) : c \in Certificates }
    /\ currentCert = LoadX509KeyPair(certFiles).cert
    /\ certPointerMutex = Unlocked
    /\ tickerC = FALSE
    /\ tickerStopped = FALSE
    /\ stopChannelClosed = FALSE
    /\ reloader = [pc |-> "notStarted", cert |-> NoCertificate]
    /\ stopper = "notCalled"
    /\ handshakes = [h \in Handshakes |-> Idle]
    /\ reload = NoReload

CertIdle ==
    /\ certFiles = GoodFiles(1)
    /\ currentCert = 1
    /\ certPointerMutex = Unlocked
    /\ tickerC = FALSE
    /\ tickerStopped = FALSE
    /\ stopChannelClosed = FALSE
    /\ reloader = [pc |-> "notStarted", cert |-> NoCertificate]
    /\ stopper = "notCalled"
    /\ handshakes = [h \in Handshakes |-> Idle]
    /\ reload = NoReload

\* Someone replaces the files on disk: a renewed key pair, or a broken one.
RotateFiles ==
    /\ \E f \in FileStates : f # certFiles /\ certFiles' = f
    /\ UNCHANGED <<currentCert, certPointerMutex, tickerC, tickerStopped,
                   stopChannelClosed, reloader, stopper, handshakes, reload>>
    /\ UNCHANGED NotCertVars

\* The ticker fires: a tick is dropped when the channel still holds one.
Tick ==
    /\ ~tickerStopped
    /\ ~tickerC
    /\ tickerC' = TRUE
    /\ UNCHANGED <<certFiles, currentCert, certPointerMutex, tickerStopped,
                   stopChannelClosed, reloader, stopper, handshakes, reload>>
    /\ UNCHANGED NotCertVars

\* Start(): the reload goroutine begins at its select.
Start ==
    /\ reloader.pc = "notStarted"
    /\ reloader' = [reloader EXCEPT !.pc = "select"]
    /\ UNCHANGED <<certFiles, currentCert, certPointerMutex, tickerC, tickerStopped,
                   stopChannelClosed, stopper, handshakes, reload>>
    /\ UNCHANGED NotCertVars

\* case <-c.stopChannel: return
SelectStop ==
    /\ reloader.pc = "select"
    /\ stopChannelClosed
    /\ reloader' = [reloader EXCEPT !.pc = "exited"]
    /\ UNCHANGED <<certFiles, currentCert, certPointerMutex, tickerC, tickerStopped,
                   stopChannelClosed, stopper, handshakes, reload>>
    /\ UNCHANGED NotCertVars

\* case <-c.ticker.C: c.updateCert() is entered
SelectTick ==
    /\ reloader.pc = "select"
    /\ tickerC
    /\ tickerC' = FALSE
    /\ reloader' = [reloader EXCEPT !.pc = "load"]
    /\ reload' = [result |-> "pending", before |-> currentCert]
    /\ UNCHANGED <<certFiles, currentCert, certPointerMutex, tickerStopped,
                   stopChannelClosed, stopper, handshakes>>
    /\ UNCHANGED NotCertVars

\* A faulty variant: the return after the load error is missing.
MutUpdateCertKeepsGoingOnError ==
    /\ reloader.pc = "load"
    /\ LET loaded == LoadX509KeyPair(certFiles)
       IN  /\ reloader' = [pc |-> "lock", cert |-> loaded.cert]
           /\ reload' = [result |-> IF loaded.err THEN "failed" ELSE "loaded",
                         before |-> reload.before, files |-> certFiles]
    /\ UNCHANGED <<certFiles, currentCert, certPointerMutex, tickerC, tickerStopped,
                   stopChannelClosed, stopper, handshakes>>
    /\ UNCHANGED NotCertVars

\* updateCert: the key pair is loaded; on an error the call returns at once.
UpdateCertLoad ==
    /\ reloader.pc = "load"
    /\ LET loaded == LoadX509KeyPair(certFiles)
       IN  IF loaded.err
           THEN /\ reloader' = [reloader EXCEPT !.pc = "select"]
                /\ reload' = [result |-> "failed", before |-> reload.before,
                              files |-> certFiles]
           ELSE /\ reloader' = [pc |-> "lock", cert |-> loaded.cert]
                /\ reload' = [result |-> "loaded", before |-> reload.before,
                              files |-> certFiles]
    /\ UNCHANGED <<certFiles, currentCert, certPointerMutex, tickerC, tickerStopped,
                   stopChannelClosed, stopper, handshakes>>
    /\ UNCHANGED NotCertVars

\* A faulty variant: Lock() does not wait for the readers to leave.
MutUpdateCertLockIgnoresReaders ==
    /\ reloader.pc = "lock"
    /\ ~certPointerMutex.writer
    /\ certPointerMutex' = [certPointerMutex EXCEPT !.writer = TRUE]
    /\ reloader' = [reloader EXCEPT !.pc = "write"]
    /\ UNCHANGED <<certFiles, currentCert, tickerC, tickerStopped,
                   stopChannelClosed, stopper, handshakes, reload>>
    /\ UNCHANGED NotCertVars

\* updateCert: c.certPointerMutex.Lock() returns once no reader and no writer is in.
UpdateCertLock ==
    /\ reloader.pc = "lock"
    /\ ~certPointerMutex.writer
    /\ certPointerMutex.readers = 0
    /\ certPointerMutex' = [certPointerMutex EXCEPT !.writer = TRUE]
    /\ reloader' = [reloader EXCEPT !.pc = "write"]
    /\ UNCHANGED <<certFiles, currentCert, tickerC, tickerStopped,
                   stopChannelClosed, stopper, handshakes, reload>>
    /\ UNCHANGED NotCertVars

\* updateCert: c.currentCert = &cert
UpdateCertWrite ==
    /\ reloader.pc = "write"
    /\ currentCert' = reloader.cert
    /\ reloader' = [reloader EXCEPT !.pc = "unlock"]
    /\ UNCHANGED <<certFiles, certPointerMutex, tickerC, tickerStopped,
                   stopChannelClosed, stopper, handshakes, reload>>
    /\ UNCHANGED NotCertVars

\* updateCert: c.certPointerMutex.Unlock(), and the call returns to the select.
UpdateCertUnlock ==
    /\ reloader.pc = "unlock"
    /\ certPointerMutex' = [certPointerMutex EXCEPT !.writer = FALSE]
    /\ reloader' = [pc |-> "select", cert |-> NoCertificate]
    /\ reload' = [reload EXCEPT !.result = "ok"]
    /\ UNCHANGED <<certFiles, currentCert, tickerC, tickerStopped,
                   stopChannelClosed, stopper, handshakes>>
    /\ UNCHANGED NotCertVars

\* GetCertificate: c.certPointerMutex.RLock(). A reader waits while the writer is
\* in, and also while the writer waits in Lock().
GetCertificateRLock ==
    /\ \E h \in Handshakes :
          /\ handshakes[h].pc = "idle"
          /\ ~certPointerMutex.writer
          /\ reloader.pc # "lock"
          /\ handshakes' = [handshakes EXCEPT ![h] = [pc |-> "rlocked"]]
          /\ certPointerMutex' =
                [certPointerMutex EXCEPT !.readers = certPointerMutex.readers + 1]
    /\ UNCHANGED <<certFiles, currentCert, tickerC, tickerStopped,
                   stopChannelClosed, reloader, stopper, reload>>
    /\ UNCHANGED NotCertVars

\* GetCertificate: return c.currentCert is evaluated. The record keeps, beside
\* the certificate read, the one that was active before the last reload when that
\* reload has failed (NoCertificate otherwise).
GetCertificateRead ==
    /\ \E h \in Handshakes :
          /\ handshakes[h].pc = "rlocked"
          /\ handshakes' = [handshakes EXCEPT ![h] =
                [pc |-> "read", cert |-> currentCert,
                 beforeFailedReload |->
                    IF reload.result = "failed" THEN reload.before ELSE NoCertificate]]
    /\ UNCHANGED <<certFiles, currentCert, certPointerMutex, tickerC, tickerStopped,
                   stopChannelClosed, reloader, stopper, reload>>
    /\ UNCHANGED NotCertVars

\* GetCertificate: the deferred RUnlock() runs and the handshake has its certificate.
GetCertificateRUnlock ==
    /\ \E h \in Handshakes :
          /\ handshakes[h].pc = "read"
          /\ handshakes' = [handshakes EXCEPT ![h] = Idle]
          /\ certPointerMutex' =
                [certPointerMutex EXCEPT !.readers = certPointerMutex.readers - 1]
    /\ UNCHANGED <<certFiles, currentCert, tickerC, tickerStopped,
                   stopChannelClosed, reloader, stopper, reload>>
    /\ UNCHANGED NotCertVars

\* Stop(): close(c.stopChannel)
StopClose ==
    /\ stopper = "notCalled"
    /\ stopChannelClosed' = TRUE
    /\ stopper' = "closed"
    /\ UNCHANGED <<certFiles, currentCert, certPointerMutex, tickerC, tickerStopped,
                   reloader, handshakes, reload>>
    /\ UNCHANGED NotCertVars

\* A faulty variant: Stop() returns without stopping the ticker.
MutStopLeavesTickerRunning ==
    /\ stopper = "closed"
    /\ stopper' = "returned"
    /\ UNCHANGED <<certFiles, currentCert, certPointerMutex, tickerC, tickerStopped,
                   stopChannelClosed, reloader, handshakes, reload>>
    /\ UNCHANGED NotCertVars

\* Stop(): c.ticker.Stop()
StopTicker ==
    /\ stopper = "closed"
    /\ tickerStopped' = TRUE
    /\ stopper' = "returned"
    /\ UNCHANGED <<certFiles, currentCert, certPointerMutex, tickerC,
                   stopChannelClosed, reloader, handshakes, reload>>
    /\ UNCHANGED NotCertVars

CertNext ==
    \/ RotateFiles \/ Tick \/ Start \/ SelectStop \/ SelectTick
    \/ UpdateCertLoad \/ UpdateCertLock \/ UpdateCertWrite \/ UpdateCertUnlock
    \/ GetCertificateRLock \/ GetCertificateRead \/ GetCertificateRUnlock
    \/ StopClose \/ StopTicker

-----------------------------------------------------------------------------
(* The life cycle of the webhook: Start, self-registration, Stop.          *)

webhookName == "webhook.sparkoperator.k8s.io"

\* The CA bundles the CA certificate file can hold.
CABundles == {"ca-1", "ca-2"}

UnreadableFile == [readable |-> FALSE]
FileOf(bytes) == [readable |-> TRUE, bytes |-> bytes]
CAFileStates == {UnreadableFile} \cup { FileOf(b) : b \in CABundles }

\* readCertFile(certFile): ioutil.ReadFile
readCertFile(file) ==
    IF file.readable THEN [err |-> FALSE, bytes |-> file.bytes] ELSE [err |-> TRUE]

\* WebHook.serviceRef, as New builds it.
serviceRef == [namespace |-> "spark-operator", name |-> "spark-webhook", path |-> "/webhook"]

\* v1beta1.Webhook
Webhook(name, operations, resources, service, caBundle, failurePolicy) ==
    [name |-> name,
     rules |-> <<[operations |-> operations, apiGroups |-> <<"">>,
                  apiVersions |-> <<"v1">>, resources |-> resources]>>,
     clientConfig |-> [service |-> service, caBundle |-> caBundle],
     failurePolicy |-> failurePolicy]

\* The webhook selfRegistration computes from the service reference and the CA bundle.
SparkWebhook(service, caBundle) ==
    Webhook(webhookName, <<"CREATE">>, <<"pods">>, service, caBundle, "Ignore")

\* A webhook of someone else's making.
ForeignWebhook ==
    Webhook("other.example.com", <<"CREATE", "UPDATE">>, <<"pods">>, serviceRef, "ca-1", "Fail")

\* The MutatingWebhookConfiguration of one name at the API server.
NoConfiguration == [exists |-> FALSE]
Configuration(webhooks) == [exists |-> TRUE, webhooks |-> webhooks]

WebhookLists ==
    {<<>>, <<ForeignWebhook>>}
        \cup { <<SparkWebhook(serviceRef, b)>> : b \in CABundles }
        \cup { <<SparkWebhook(serviceRef, b), ForeignWebhook>> : b \in CABundles }

StoredConfigurations == {NoConfiguration} \cup { Configuration(ws) : ws \in WebhookLists }

\* What the API server does to a call apart from what the stored object implies:
\* Get can fail with another error than NotFound, a write can be refused.
APIEnvironments == [getFails : BOOLEAN, writeFails : BOOLEAN]

\* What a call of selfRegistration did: the error it returned (if any), the
\* configuration stored afterwards, and the writes it issued.
Registered(err, stored, writes) == [err |-> err, stored |-> stored, writes |-> writes]

\* A faulty variant: an existing configuration is left as it is found.
MutSelfRegistrationKeepsExisting(stored, file, api) ==
    LET caCert == readCertFile(file)
        webhooks == <<SparkWebhook(serviceRef, caCert.bytes)>>
    IN  IF api.getFails THEN Registered(TRUE, stored, <<>>)
        ELSE IF caCert.err THEN Registered(TRUE, stored, <<>>)
        ELSE IF stored.exists THEN Registered(FALSE, stored, <<>>)
        ELSE IF api.writeFails THEN Registered(TRUE, stored, <<"Create">>)
        ELSE Registered(FALSE, Configuration(webhooks), <<"Create">>)

\* A faulty variant: an existing configuration is updated without a comparison.
MutSelfRegistrationAlwaysUpdates(stored, file, api) ==
    LET caCert == readCertFile(file)
        webhooks == <<SparkWebhook(serviceRef, caCert.bytes)>>
    IN  IF api.getFails THEN Registered(TRUE, stored, <<>>)
        ELSE IF caCert.err THEN Registered(TRUE, stored, <<>>)
        ELSE IF stored.exists
             THEN IF api.writeFails THEN Registered(TRUE, stored, <<"Update">>)
                  ELSE Registered(FALSE, Configuration(webhooks), <<"Update">>)
        ELSE IF api.writeFails THEN Registered(TRUE, stored, <<"Create">>)
        ELSE Registered(FALSE, Configuration(webhooks), <<"Create">>)

\* selfRegistration(webhookConfigName): Get, read the CA file, then Update the
\* configuration found if its webhooks differ (reflect.DeepEqual), or Create one.
selfRegistration(stored, file, api) ==
    LET caCert == readCertFile(file)
        webhooks == <<SparkWebhook(serviceRef, caCert.bytes)>>
    IN  IF api.getFails THEN Registered(TRUE, stored, <<>>)
        ELSE IF caCert.err THEN Registered(TRUE, stored, <<>>)
        ELSE IF stored.exists
             THEN IF webhooks # stored.webhooks
                  THEN IF api.writeFails THEN Registered(TRUE, stored, <<"Update">>)
                       ELSE Registered(FALSE, Configuration(webhooks), <<"Update">>)
                  ELSE Registered(FALSE, stored, <<>>)
        ELSE IF api.writeFails THEN Registered(TRUE, stored, <<"Create">>)
        ELSE Registered(FALSE, Configuration(webhooks), <<"Create">>)

\* selfDeregistration(webhookConfigName): Delete, which fails for a configuration
\* that does not exist and when the API server refuses.
selfDeregistration(stored, deleteFails) ==
    IF ~stored.exists \/ deleteFails THEN [err |-> TRUE, stored |-> stored]
    ELSE [err |-> FALSE, stored |-> NoConfiguration]

\* The drain time Stop gives server.Shutdown, in seconds.
ShutdownTimeoutSeconds == 10

\* Process restarts of the operator, and calls of Stop in one process.
MaxRestarts == 1
MaxStopCalls == 2

NoShutdown == [asked |-> FALSE]
Shutdown(timeout) == [asked |-> TRUE, timeoutSeconds |-> timeout]

\* A WebHook as New returns it, in the process after so many restarts.
NewHook(restarts) ==
    [pc |-> "new", restarts |-> restarts, stopCalls |-> 0, stopReturned |-> FALSE,
     deregistered |-> FALSE]
NewServer == [listening |-> FALSE, shutdown |-> NoShutdown]

LifecycleInit ==
    /\ webhookConfiguration \in StoredConfigurations
    /\ caCertFile \in CAFileStates
    /\ hook = NewHook(0)
    /\ server = NewServer
    /\ calls = <<>>

LifecycleIdle ==
    /\ webhookConfiguration = NoConfiguration
    /\ caCertFile = FileOf("ca-1")
    /\ hook = NewHook(0)
    /\ server = NewServer
    /\ calls = <<>>

\* What the life cycle leaves alone: the other components, and of the certificate
\* provider all but the reload goroutine, the stop channel and the ticker.
NotLifecycleVars ==
    <<routerVars, webhookVars, metricsVars, monitoringVars, schedulerVars, upgradeVars,
      certFiles,
      currentCert, certPointerMutex, tickerC, handshakes, reload>>

\* Someone replaces the CA certificate file.
RotateCAFile ==
    /\ \E f \in CAFileStates : f # caCertFile /\ caCertFile' = f
    /\ UNCHANGED <<webhookConfiguration, hook, server, calls>>
    /\ UNCHANGED <<reloader, stopper, stopChannelClosed, tickerStopped>>
    /\ UNCHANGED NotLifecycleVars

\* WebHook.Start: the certificate provider is started, the server goroutine is
\* started, and the result is that of selfRegistration.
WebHookStart ==
    /\ hook.pc = "new"
    /\ \E api \in APIEnvironments :
          LET reg == selfRegistration(webhookConfiguration, caCertFile, api)
          IN  /\ webhookConfiguration' = reg.stored
              /\ calls' = Append(calls, [op |-> "selfRegistration", err |-> reg.err,
                                         caCertFile |-> caCertFile,
                                         writes |-> reg.writes])
    /\ reloader' = [reloader EXCEPT !.pc = "select"]
    /\ server' = [server EXCEPT !.listening = TRUE]
    /\ hook' = [hook EXCEPT !.pc = "idle"]
    /\ UNCHANGED <<caCertFile, stopper, stopChannelClosed, tickerStopped>>
    /\ UNCHANGED NotLifecycleVars

\* A faulty variant: Stop goes on after a failed deregistration.
MutStopIgnoresDeregistrationError ==
    /\ hook.pc = "idle"
    /\ hook.stopCalls < MaxStopCalls
    /\ stopper = "notCalled"
    /\ \E deleteFails \in BOOLEAN :
          LET dereg == selfDeregistration(webhookConfiguration, deleteFails)
          IN  /\ webhookConfiguration' = dereg.stored
              /\ calls' = Append(calls, [op |-> "selfDeregistration", err |-> dereg.err])
              /\ hook' = [hook EXCEPT !.pc = "certStop",
                                      !.stopCalls = hook.stopCalls + 1,
                                      !.deregistered = ~dereg.err]
    /\ UNCHANGED <<caCertFile, server>>
    /\ UNCHANGED <<reloader, stopper, stopChannelClosed, tickerStopped>>
    /\ UNCHANGED NotLifecycleVars

\* WebHook.Stop: selfDeregistration; its error ends the call at once.
WebHookStopDeregister ==
    /\ hook.pc = "idle"
    /\ hook.stopCalls < MaxStopCalls
    /\ \E deleteFails \in BOOLEAN :
          LET dereg == selfDeregistration(webhookConfiguration, deleteFails)
          IN  /\ webhookConfiguration' = dereg.stored
              /\ calls' = Append(calls, [op |-> "selfDeregistration", err |-> dereg.err])
              /\ hook' =
                    IF dereg.err
                    THEN [hook EXCEPT !.stopCalls = hook.stopCalls + 1,
                                      !.stopReturned = TRUE]
                    ELSE [hook EXCEPT !.pc = "certStop",
                                      !.stopCalls = hook.stopCalls + 1,
                                      !.deregistered = TRUE]
    /\ UNCHANGED <<caCertFile, server>>
    /\ UNCHANGED <<reloader, stopper, stopChannelClosed, tickerStopped>>
    /\ UNCHANGED NotLifecycleVars

\* WebHook.Stop: wh.certProvider.Stop() closes the stop channel and stops the ticker.
WebHookStopCertProvider ==
    /\ hook.pc = "certStop"
    /\ stopChannelClosed' = TRUE
    /\ tickerStopped' = TRUE
    /\ stopper' = "returned"
    /\ hook' = [hook EXCEPT !.pc = "shutdown"]
    /\ UNCHANGED <<webhookConfiguration, caCertFile, server, calls, reloader>>
    /\ UNCHANGED NotLifecycleVars

\* WebHook.Stop: wh.server.Shutdown(ctx) with the context of the drain time; the
\* call returns its result, nil or the error of the expired context.
WebHookStopShutdown ==
    /\ hook.pc = "shutdown"
    /\ server' = [listening |-> FALSE, shutdown |-> Shutdown(ShutdownTimeoutSeconds)]
    /\ hook' = [hook EXCEPT !.pc = "idle", !.stopReturned = TRUE]
    /\ UNCHANGED <<webhookConfiguration, caCertFile, calls>>
    /\ UNCHANGED <<reloader, stopper, stopChannelClosed, tickerStopped>>
    /\ UNCHANGED NotLifecycleVars

\* The operator process ends, however far it got, and a new one builds its
\* WebHook; the API server keeps what it stores.
ProcessRestart ==
    /\ hook.restarts < MaxRestarts
    /\ hook' = NewHook(hook.restarts + 1)
    /\ server' = NewServer
    /\ reloader' = [pc |-> "notStarted", cert |-> NoCertificate]
    /\ stopper' = "notCalled"
    /\ stopChannelClosed' = FALSE
    /\ tickerStopped' = FALSE
    /\ UNCHANGED <<webhookConfiguration, caCertFile, calls>>
    /\ UNCHANGED NotLifecycleVars

LifecycleNext ==
    \/ RotateCAFile \/ WebHookStart
    \/ WebHookStopDeregister \/ WebHookStopCertProvider \/ WebHookStopShutdown
    \/ ProcessRestart

-----------------------------------------------------------------------------
(* The application metrics: exportMetrics.                                 *)

\* v1beta2: the application states exportMetrics distinguishes, and the new state.
NewState == ""
SubmittedState == "SUBMITTED"
RunningState == "RUNNING"
SucceedingState == "SUCCEEDING"
FailingState == "FAILING"
FailedSubmissionState == "SUBMISSION_FAILED"
ApplicationStates ==
    {NewState, SubmittedState, RunningState, SucceedingState, FailingState,
     FailedSubmissionState}

\* v1beta2: the executor states.
ExecutorPendingState == "PENDING"
ExecutorRunningState == "RUNNING"
ExecutorCompletedState == "COMPLETED"
ExecutorFailedState == "FAILED"
ExecutorStates ==
    {ExecutorPendingState, ExecutorRunningState, ExecutorCompletedState,
     ExecutorFailedState}

Executors == {"exec-1", "exec-2"}

\* Status.ExecutorState: a map from the executors known so far to their states.
ExecutorStateMaps == UNION { [D -> ExecutorStates] : D \in SUBSET Executors }

\* Instants, in nanoseconds after the zero time.Time.
ZeroTime == 0

\* The pairs of LastSubmissionAttemptTime and TerminationTime a status carries:
\* none, one or both set, and the termination after or before the attempt.
TimeStamps ==
    {<<ZeroTime, ZeroTime>>, <<1000, ZeroTime>>, <<ZeroTime, 2500>>,
     <<1000, 2500>>, <<2500, 1000>>}

\* time.Time.IsZero, time.Time.Sub
IsZero(t) == t = ZeroTime
Sub(t, u) == t - u

\* time.Microsecond, in nanoseconds.
Microsecond == 1000

\* d / unit on integers, as Go divides: the quotient is truncated toward zero.
Quotient(d, unit) == IF d >= 0 THEN d \div unit ELSE -((-d) \div unit)

\* v1beta2.SparkApplicationStatus, as far as exportMetrics reads it.
ApplicationStatuses ==
    { [state |-> state,
       lastSubmissionAttemptTime |-> times[1],
       terminationTime |-> times[2],
       executorState |-> executors] :
         state \in ApplicationStates, times \in TimeStamps,
         executors \in ExecutorStateMaps }

\* A call that touches no metric: the number of Inc and Dec calls on each
\* counter and gauge, and the values observed into each summary.
NoEffects ==
    [sparkAppSubmitCount |-> 0,
     sparkAppRunningCountInc |-> 0,
     sparkAppRunningCountDec |-> 0,
     sparkAppSuccessCount |-> 0,
     sparkAppFailureCount |-> 0,
     sparkAppFailedSubmissionCount |-> 0,
     sparkAppSuccessExecutionTime |-> <<>>,
     sparkAppFailureExecutionTime |-> <<>>,
     sparkAppExecutorRunningCountInc |-> 0,
     sparkAppExecutorRunningCountDec |-> 0,
     sparkAppExecutorSuccessCount |-> 0,
     sparkAppExecutorFailureCount |-> 0]

\* A faulty variant: the duration is observed whatever the timestamps are.
MutObserveUnsetTimes(status) ==
    <<Quotient(Sub(status.terminationTime, status.lastSubmissionAttemptTime), Microsecond)>>

\* The values a transition into Succeeding or Failing observes: the time from the
\* last submission attempt to the termination in microseconds, when both are set.
executionTime(status) ==
    IF ~IsZero(status.lastSubmissionAttemptTime) /\ ~IsZero(status.terminationTime)
    THEN <<Quotient(Sub(status.terminationTime, status.lastSubmissionAttemptTime),
                    Microsecond)>>
    ELSE <<>>

\* A faulty variant: the new application state is not compared with the old one.
MutApplicationEffectsWithoutComparison(oldStatus, newStatus) ==
    LET newState == newStatus.state
    IN  CASE newState = SubmittedState -> [NoEffects EXCEPT !.sparkAppSubmitCount = 1]
          [] newState = RunningState -> [NoEffects EXCEPT !.sparkAppRunningCountInc = 1]
          [] newState = SucceedingState ->
                [NoEffects EXCEPT
                    !.sparkAppSuccessExecutionTime = executionTime(newStatus),
                    !.sparkAppRunningCountDec = 1,
                    !.sparkAppSuccessCount = 1]
          [] newState = FailingState ->
                [NoEffects EXCEPT
                    !.sparkAppFailureExecutionTime = executionTime(newStatus),
                    !.sparkAppRunningCountDec = 1,
                    !.sparkAppFailureCount = 1]
          [] newState = FailedSubmissionState ->
                [NoEffects EXCEPT !.sparkAppFailedSubmissionCount = 1]
          [] OTHER -> NoEffects

\* exportMetrics, the switch on the new application state.
applicationEffects(oldStatus, newStatus) ==
    LET newState == newStatus.state
    IN  IF newState = oldStatus.state THEN NoEffects
        ELSE CASE newState = SubmittedState ->
                    [NoEffects EXCEPT !.sparkAppSubmitCount = 1]
               [] newState = RunningState ->
                    [NoEffects EXCEPT !.sparkAppRunningCountInc = 1]
               [] newState = SucceedingState ->
                    [NoEffects EXCEPT
                        !.sparkAppSuccessExecutionTime = executionTime(newStatus),
                        !.sparkAppRunningCountDec = 1,
                        !.sparkAppSuccessCount = 1]
               [] newState = FailingState ->
                    [NoEffects EXCEPT
                        !.sparkAppFailureExecutionTime = executionTime(newStatus),
                        !.sparkAppRunningCountDec = 1,
                        !.sparkAppFailureCount = 1]
               [] newState = FailedSubmissionState ->
                    [NoEffects EXCEPT !.sparkAppFailedSubmissionCount = 1]
               [] OTHER -> NoEffects

\* oldApp.Status.ExecutorState[executor]: "" for an executor the map does not hold.
ExecutorStateOf(executorState, executor) ==
    IF executor \in DOMAIN executorState THEN executorState[executor] ELSE ""

\* A faulty variant: the old state of the executor is not compared.
MutExecutorsInWithoutComparison(oldStatus, newStatus, state) ==
    { executor \in DOMAIN newStatus.executorState :
         newStatus.executorState[executor] = state }

\* The executors of the new status that are in the given state and were not in it
\* in the old status.
executorsNewlyIn(oldStatus, newStatus, state) ==
    { executor \in DOMAIN newStatus.executorState :
         /\ newStatus.executorState[executor] = state
         /\ ExecutorStateOf(oldStatus.executorState, executor) # state }

\* exportMetrics, the loop over the executors of the new status, added to what
\* the switch on the application state did.
exportMetrics(oldStatus, newStatus) ==
    LET running == Cardinality(executorsNewlyIn(oldStatus, newStatus, ExecutorRunningState))
        completed ==
            Cardinality(executorsNewlyIn(oldStatus, newStatus, ExecutorCompletedState))
        failed == Cardinality(executorsNewlyIn(oldStatus, newStatus, ExecutorFailedState))
    IN  [applicationEffects(oldStatus, newStatus) EXCEPT
            !.sparkAppExecutorRunningCountInc = running,
            !.sparkAppExecutorRunningCountDec = completed + failed,
            !.sparkAppExecutorSuccessCount = completed,
            !.sparkAppExecutorFailureCount = failed]

\* newSparkAppMetrics: the metrics the constructor makes, by their field names.
newSparkAppMetrics ==
    {"sparkAppSubmitCount", "sparkAppRunningCount", "sparkAppSuccessCount",
     "sparkAppFailureCount", "sparkAppFailedSubmissionCount",
     "sparkAppSuccessExecutionTime", "sparkAppFailureExecutionTime",
     "sparkAppExecutorRunningCount", "sparkAppExecutorSuccessCount",
     "sparkAppExecutorFailureCount"}

\* registerMetrics: the metrics handed to util.RegisterMetric or registered by
\* their own Register method.
registerMetrics ==
    {"sparkAppSubmitCount", "sparkAppSuccessCount", "sparkAppFailureCount",
     "sparkAppSuccessExecutionTime", "sparkAppFailureExecutionTime",
     "sparkAppExecutorSuccessCount", "sparkAppExecutorFailureCount",
     "sparkAppRunningCount", "sparkAppExecutorRunningCount"}

\* An application the controller has not reported on yet.
NewStatus ==
    [state |-> NewState, lastSubmissionAttemptTime |-> ZeroTime,
     terminationTime |-> ZeroTime, executorState |-> <<>>]

MetricsInit ==
    /\ appStatus = NewStatus
    /\ metricEffects = NoEffects

MetricsIdle == MetricsInit

\* The controller reports a status, changed or not, with the status it reported
\* before as the old one.
ExportMetrics ==
    /\ \E newStatus \in ApplicationStatuses :
          /\ metricEffects' = exportMetrics(appStatus, newStatus)
          /\ appStatus' = newStatus
    /\ UNCHANGED NotMetricsVars

MetricsNext == ExportMetrics

-----------------------------------------------------------------------------
(* The Prometheus monitoring configuration: configPrometheusMonitoring.    *)

metricsPropertiesKey == "metrics.properties"
prometheusConfigKey == "prometheus.yaml"
prometheusScrapeAnnotation == "prometheus.io/scrape"
prometheusPortAnnotation == "prometheus.io/port"
prometheusPathAnnotation == "prometheus.io/path"

\* pkg/config: the defaults of the monitoring configuration.
DefaultPrometheusJavaAgentPort == 8090
PrometheusConfigMapMountPath == "/etc/metrics/conf"
DefaultMetricsProperties == "default metrics.properties"
DefaultPrometheusConfiguration == "default prometheus.yaml"

\* config.GetPrometheusConfigMapName(app)
GetPrometheusConfigMapName(app) == app.name \o "-prom-conf"

\* A *string and a *int32: nil, or pointing at a value.
NilPointer == [set |-> FALSE]
PointerTo(value) == [set |-> TRUE, value |-> value]

\* A map[string]string; a nil map reads as the empty one.
EmptyMap == [k \in {} |-> ""]
Put(m, k, v) == [x \in DOMAIN m \cup {k} |-> IF x = k THEN v ELSE m[x]]

\* v1beta2.SparkApplication, as far as configPrometheusMonitoring reads and
\* writes it. sameJavaOptions: the java options of the driver and of the
\* executor are one string behind two pointers, which a decoded application
\* never has.
MonitoredApps ==
    [namespace : Namespaces,
     name : AppNames,
     metricsProperties : {NilPointer, PointerTo("custom metrics.properties")},
     configuration : {NilPointer, PointerTo("custom prometheus.yaml")},
     configFile : {NilPointer, PointerTo("/opt/spark/prometheus.yaml")},
     port : {NilPointer, PointerTo(9000)},
     jmxExporterJar : {"/prometheus/jmx_exporter.jar"},
     exposeDriverMetrics : BOOLEAN,
     exposeExecutorMetrics : BOOLEAN,
     sparkConf : {EmptyMap},
     driverAnnotations : {EmptyMap},
     driverJavaOptions : {NilPointer, PointerTo("-Dlog4j.debug")},
     executorAnnotations : {EmptyMap},
     executorJavaOptions : {NilPointer, PointerTo("-verbose:gc")},
     sameJavaOptions : {FALSE}]

\* app.HasPrometheusConfigFile()
HasPrometheusConfigFile(app) == app.configFile.set

\* The ConfigMap of one name in one namespace at the API server.
NoConfigMap == [exists |-> FALSE, resourceVersion |-> 0]
ConfigMap(data, resourceVersion) ==
    [exists |-> TRUE, data |-> data, resourceVersion |-> resourceVersion]

\* buildPrometheusConfigMap(app, name): the Data of the ConfigMap it builds.
buildPrometheusConfigMap(app) ==
    LET metricsProperties ==
            IF app.metricsProperties.set THEN app.metricsProperties.value
            ELSE DefaultMetricsProperties
        prometheusConfig ==
            IF app.configuration.set THEN app.configuration.value
            ELSE DefaultPrometheusConfiguration
    IN  Put(Put(EmptyMap, metricsPropertiesKey, metricsProperties),
            prometheusConfigKey, prometheusConfig)

\* The data a ConfigMap of that name can hold: what some application computes,
\* or something else.
ConfigMapData ==
    { buildPrometheusConfigMap(app) : app \in MonitoredApps }
        \cup { Put(EmptyMap, metricsPropertiesKey, "edited by hand") }

\* retry.DefaultRetry: the attempts RetryOnConflict makes.
DefaultRetrySteps == 5

\* Calls of configPrometheusMonitoring on the application object, and writes of
\* the ConfigMap by others.
MaxInvocations == 2
MaxForeignWrites == 2

\* The port the java agent listens on.
PortOf(app) == IF app.port.set THEN app.port.value ELSE DefaultPrometheusJavaAgentPort

\* The java-agent option, for the config file of the image or for the mounted
\* ConfigMap.
javaOptionOf(app) ==
    IF HasPrometheusConfigFile(app)
    THEN "-javaagent:" \o app.jmxExporterJar \o "=" \o ToString(PortOf(app)) \o ":"
            \o app.configFile.value
    ELSE "-javaagent:" \o app.jmxExporterJar \o "=" \o ToString(PortOf(app)) \o ":"
            \o PrometheusConfigMapMountPath \o "/" \o prometheusConfigKey

\* The three Prometheus annotations, set on the annotations of a role.
WithPrometheusAnnotations(annotations, app) ==
    Put(Put(Put(annotations, prometheusScrapeAnnotation, "true"),
            prometheusPortAnnotation, ToString(PortOf(app))),
        prometheusPathAnnotation, "/metrics")

\* A faulty variant: the java-agent option replaces the java options of the role.
MutWithJavaOptionOverwrites(javaOptions, javaOption) == PointerTo(javaOption)

\* The java options of a role with the java-agent option appended.
WithJavaOption(javaOptions, javaOption) ==
    IF ~javaOptions.set THEN PointerTo(javaOption)
    ELSE PointerTo(javaOptions.value \o " " \o javaOption)

\* configPrometheusMonitoring from the work-around on: the Spark conf entries,
\* then the annotations and the java options of the driver when it is exposed,
\* then those of the executor. A role without java options is pointed at the
\* javaOption variable of the call, so two such roles share one string from then
\* on, and appending through either pointer changes what both read.
configureSpec(app) ==
    LET javaOption == javaOptionOf(app)
        metricNamespace == app.namespace \o "." \o app.name
        metricConf == PrometheusConfigMapMountPath \o "/" \o metricsPropertiesKey
        conf == Put(Put(app.sparkConf, "spark.metrics.namespace", metricNamespace),
                    "spark.metrics.conf", metricConf)
        driverAtLocal == app.exposeDriverMetrics /\ ~app.driverJavaOptions.set
        afterDriver ==
            IF ~app.exposeDriverMetrics THEN app
            ELSE LET options == WithJavaOption(app.driverJavaOptions, javaOption)
                 IN  [app EXCEPT
                         !.driverAnnotations =
                             WithPrometheusAnnotations(app.driverAnnotations, app),
                         !.driverJavaOptions = options,
                         !.executorJavaOptions =
                             IF app.sameJavaOptions THEN options ELSE @]
        afterExecutor ==
            IF ~app.exposeExecutorMetrics THEN afterDriver
            ELSE LET options ==
                         WithJavaOption(afterDriver.executorJavaOptions, javaOption)
                 IN  [afterDriver EXCEPT
                         !.executorAnnotations =
                             WithPrometheusAnnotations(app.executorAnnotations, app),
                         !.executorJavaOptions = options,
                         !.driverJavaOptions =
                             IF app.sameJavaOptions THEN options ELSE @,
                         !.sameJavaOptions =
                             \/ app.sameJavaOptions
                             \/ (driverAtLocal /\ ~app.executorJavaOptions.set)]
    IN  [afterExecutor EXCEPT !.sparkConf = conf]

\* No call of configPrometheusMonitoring so far.
NotInvoked ==
    [pc |-> "idle", number |-> 0, attempts |-> 0, cm |-> NoConfigMap,
     returned |-> FALSE, err |-> FALSE, writes |-> <<>>, wrote |-> FALSE,
     writtenVersion |-> 0]

\* The call returns, with an error or without.
Returned(err) == [invocation EXCEPT !.pc = "idle", !.returned = TRUE, !.err = err]

MonitoringInit ==
    /\ monitoredApp \in MonitoredApps
    /\ \E stored \in {NoConfigMap} \cup { ConfigMap(data, 1) : data \in ConfigMapData } :
          configMaps = [ns \in Namespaces |->
                          IF ns = monitoredApp.namespace THEN stored ELSE NoConfigMap]
    /\ invocation = NotInvoked
    /\ foreignWrites = 0

MonitoringIdle ==
    /\ monitoredApp =
          [namespace |-> "ns1", name |-> "app1", metricsProperties |-> NilPointer,
           configuration |-> NilPointer, configFile |-> NilPointer, port |-> NilPointer,
           jmxExporterJar |-> "/prometheus/jmx_exporter.jar",
           exposeDriverMetrics |-> FALSE, exposeExecutorMetrics |-> FALSE,
           sparkConf |-> EmptyMap, driverAnnotations |-> EmptyMap,
           driverJavaOptions |-> NilPointer, executorAnnotations |-> EmptyMap,
           executorJavaOptions |-> NilPointer, sameJavaOptions |-> FALSE]
    /\ configMaps = [ns \in Namespaces |-> NoConfigMap]
    /\ invocation = NotInvoked
    /\ foreignWrites = 0

\* configPrometheusMonitoring is called: with a config file of the image it goes
\* straight to the application spec, otherwise it ensures the ConfigMap first.
ConfigPrometheusMonitoring ==
    /\ invocation.pc = "idle"
    /\ invocation.number < MaxInvocations
    /\ invocation' =
          [NotInvoked EXCEPT
              !.pc = IF HasPrometheusConfigFile(monitoredApp) THEN "configure" ELSE "get",
              !.number = invocation.number + 1]
    /\ UNCHANGED <<configMaps, monitoredApp, foreignWrites>>
    /\ UNCHANGED NotMonitoringVars

\* A faulty variant: after a failed Get the call goes on to the application spec.
MutConfigMapGetIgnoresError ==
    /\ invocation.pc = "get"
    /\ \E getFails \in BOOLEAN :
          LET stored == configMaps[monitoredApp.namespace]
          IN  invocation' =
                 IF getFails THEN [invocation EXCEPT !.pc = "configure"]
                 ELSE IF ~stored.exists THEN [invocation EXCEPT !.pc = "create"]
                 ELSE [invocation EXCEPT !.pc = "update", !.cm = stored]
    /\ UNCHANGED <<configMaps, monitoredApp, foreignWrites>>
    /\ UNCHANGED NotMonitoringVars

\* client.Get: not found leads to Create, another error ends the call, a
\* ConfigMap found leads to Update.
ConfigMapGet ==
    /\ invocation.pc = "get"
    /\ \E getFails \in BOOLEAN :
          LET stored == configMaps[monitoredApp.namespace]
          IN  invocation' =
                 IF getFails THEN Returned(TRUE)
                 ELSE IF ~stored.exists THEN [invocation EXCEPT !.pc = "create"]
                 ELSE [invocation EXCEPT !.pc = "update", !.cm = stored]
    /\ UNCHANGED <<configMaps, monitoredApp, foreignWrites>>
    /\ UNCHANGED NotMonitoringVars

\* client.Create(ctx, configMap): refused when a ConfigMap of the name exists by
\* now, or for another reason; the error ends the call.
ConfigMapCreate ==
    /\ invocation.pc = "create"
    /\ \E createFails \in BOOLEAN :
          LET ns == monitoredApp.namespace
              writes == Append(invocation.writes, "Create")
          IN  IF configMaps[ns].exists \/ createFails
              THEN /\ invocation' = [Returned(TRUE) EXCEPT !.writes = writes]
                   /\ UNCHANGED configMaps
              ELSE /\ configMaps' =
                         [configMaps EXCEPT
                             ![ns] = ConfigMap(buildPrometheusConfigMap(monitoredApp), 1)]
                   /\ invocation' =
                         [invocation EXCEPT !.pc = "configure", !.writes = writes,
                                            !.wrote = TRUE, !.writtenVersion = 1]
    /\ UNCHANGED <<monitoredApp, foreignWrites>>
    /\ UNCHANGED NotMonitoringVars

\* A faulty variant: Update replaces the data of the ConfigMap in another namespace.
MutConfigMapUpdateElsewhere ==
    /\ invocation.pc = "update"
    /\ LET ns == CHOOSE n \in Namespaces : n # monitoredApp.namespace
           stored == configMaps[ns]
           writes == Append(invocation.writes, "Update")
       IN  /\ configMaps' =
                 [configMaps EXCEPT
                     ![ns] = ConfigMap(buildPrometheusConfigMap(monitoredApp),
                                       stored.resourceVersion + 1)]
           /\ invocation' =
                 [invocation EXCEPT !.pc = "configure", !.writes = writes,
                                    !.wrote = TRUE,
                                    !.writtenVersion = stored.resourceVersion + 1]
    /\ UNCHANGED <<monitoredApp, foreignWrites>>
    /\ UNCHANGED NotMonitoringVars

\* cm.Data = configMap.Data; client.Update(ctx, cm): a conflict (the ConfigMap
\* was written since the Get) is retried from the Get until the attempts are used
\* up, another error ends the call.
ConfigMapUpdate ==
    /\ invocation.pc = "update"
    /\ \E updateFails \in BOOLEAN :
          LET ns == monitoredApp.namespace
              stored == configMaps[ns]
              writes == Append(invocation.writes, "Update")
          IN  IF stored.resourceVersion # invocation.cm.resourceVersion
              THEN /\ invocation' =
                         IF invocation.attempts + 1 >= DefaultRetrySteps
                         THEN [Returned(TRUE) EXCEPT !.writes = writes]
                         ELSE [invocation EXCEPT !.pc = "get", !.writes = writes,
                                                 !.attempts = invocation.attempts + 1]
                   /\ UNCHANGED configMaps
              ELSE IF updateFails
              THEN /\ invocation' = [Returned(TRUE) EXCEPT !.writes = writes]
                   /\ UNCHANGED configMaps
              ELSE /\ configMaps' =
                         [configMaps EXCEPT
                             ![ns] = ConfigMap(buildPrometheusConfigMap(monitoredApp),
                                               stored.resourceVersion + 1)]
                   /\ invocation' =
                         [invocation EXCEPT
                             !.pc = "configure", !.writes = writes, !.wrote = TRUE,
                             !.writtenVersion = stored.resourceVersion + 1]
    /\ UNCHANGED <<monitoredApp, foreignWrites>>
    /\ UNCHANGED NotMonitoringVars

\* The application spec is written and the call returns nil.
ConfigureSpec ==
    /\ invocation.pc = "configure"
    /\ monitoredApp' = configureSpec(monitoredApp)
    /\ invocation' = Returned(FALSE)
    /\ UNCHANGED <<configMaps, foreignWrites>>
    /\ UNCHANGED NotMonitoringVars

\* Someone else writes the ConfigMap of the application.
ForeignConfigMapWrite ==
    /\ foreignWrites < MaxForeignWrites
    /\ \E data \in ConfigMapData :
          LET ns == monitoredApp.namespace
          IN  configMaps' =
                 [configMaps EXCEPT
                     ![ns] = ConfigMap(data, configMaps[ns].resourceVersion + 1)]
    /\ foreignWrites' = foreignWrites + 1
    /\ UNCHANGED <<monitoredApp, invocation>>
    /\ UNCHANGED NotMonitoringVars

MonitoringNext ==
    \/ ConfigPrometheusMonitoring \/ ConfigMapGet \/ ConfigMapCreate
    \/ ConfigMapUpdate \/ ConfigureSpec \/ ForeignConfigMapWrite

\* A writer that keeps at it: it writes the ConfigMap again, data as they are,
\* between the Get and the Update of an attempt.
ConflictingConfigMapWrite ==
    /\ invocation.pc = "update"
    /\ LET ns == monitoredApp.namespace
           stored == configMaps[ns]
       IN  /\ stored.resourceVersion = invocation.cm.resourceVersion
           /\ configMaps' =
                 [configMaps EXCEPT
                     ![ns] = ConfigMap(stored.data, stored.resourceVersion + 1)]
    /\ UNCHANGED <<monitoredApp, invocation, foreignWrites>>
    /\ UNCHANGED NotMonitoringVars

\* The applications followed through such conflicts: defaults everywhere but in
\* the config file and in the roles exposed.
ConflictApps ==
    { app \in MonitoredApps :
        /\ app.namespace = "ns1" /\ app.name = "app1"
        /\ ~app.metricsProperties.set /\ ~app.configuration.set /\ ~app.port.set
        /\ ~app.driverJavaOptions.set /\ ~app.executorJavaOptions.set }

MonitoringConflictInit ==
    /\ MonitoringInit
    /\ monitoredApp \in ConflictApps

MonitoringConflictNext == MonitoringNext \/ ConflictingConfigMapWrite

-----------------------------------------------------------------------------
(* The YuniKorn scheduling adapter: Scheduler.Schedule and the resource    *)
(* usage it computes (internal/scheduler/yunikorn).                        *)

taskGroupsAnnotation == "yunikorn.apache.org/task-groups"
queueLabel == "queue"
driverTaskGroupName == "spark-driver"
executorTaskGroupName == "spark-executor"

\* A map[string]string where nil and empty are told apart.
NilMap == [nil |-> TRUE, m |-> EmptyMap]
MapOf(m) == [nil |-> FALSE, m |-> m]
Entry(k, v) == Put(EmptyMap, k, v)

\* maps.Copy(dst, src)
Copy(dst, src) ==
    [k \in DOMAIN dst \cup DOMAIN src |-> IF k \in DOMAIN src THEN src[k] ELSE dst[k]]

\* The value of a decimal digit, and of a string of digits.
Digit(c) ==
    CASE c = "0" -> 0 [] c = "1" -> 1 [] c = "2" -> 2 [] c = "3" -> 3 [] c = "4" -> 4
      [] c = "5" -> 5 [] c = "6" -> 6 [] c = "7" -> 7 [] c = "8" -> 8 [] c = "9" -> 9

RECURSIVE ParseNat(_)
ParseNat(s) ==
    IF Len(s) = 0 THEN 0
    ELSE 10 * ParseNat(SubSeq(s, 1, Len(s) - 1)) + Digit(SubSeq(s, Len(s), Len(s)))

\* 10 to the power n.
RECURSIVE Pow10(_)
Pow10(n) == IF n = 0 THEN 1 ELSE 10 * Pow10(n - 1)

\* A memory string of Spark ("512m", "8g") in MiB.
MiBPerGiB == 1024
byteStringAsMiB(s) ==
    LET unit == SubSeq(s, Len(s), Len(s))
        n == ParseNat(SubSeq(s, 1, Len(s) - 1))
    IN  CASE unit = "m" -> n
          [] unit = "g" -> n * MiBPerGiB
          [] unit = "t" -> n * MiBPerGiB * MiBPerGiB

\* A memory overhead factor ("0.3") as a fraction num / den.
ParseFactor(s) ==
    LET dots == { i \in 1..Len(s) : SubSeq(s, i, i) = "." }
    IN  IF dots = {} THEN [num |-> ParseNat(s), den |-> 1]
        ELSE LET dot == CHOOSE i \in dots : TRUE
                 whole == SubSeq(s, 1, dot - 1)
                 fraction == SubSeq(s, dot + 1, Len(s))
             IN  [num |-> ParseNat(whole) * Pow10(Len(fraction)) + ParseNat(fraction),
                  den |-> Pow10(Len(fraction))]

\* The kinds of application, and those that run on the JVM.
SparkApplicationTypes == {"Java", "Scala", "Python", "R"}
JVMTypes == {"Java", "Scala"}

\* The default memory overhead factors and the least overhead, in MiB.
DefaultJVMMemoryOverheadFactor == [num |-> 1, den |-> 10]
DefaultNonJVMMemoryOverheadFactor == [num |-> 4, den |-> 10]
MinMemoryOverheadMiB == 384

\* The memory overhead factor of an application: its explicit factor, or the
\* default of its kind.
memoryOverheadFactor(app) ==
    IF app.memoryOverheadFactor.set THEN ParseFactor(app.memoryOverheadFactor.value)
    ELSE IF app.type \in JVMTypes THEN DefaultJVMMemoryOverheadFactor
    ELSE DefaultNonJVMMemoryOverheadFactor

\* A faulty variant: the total is rounded up to whole MiB.
MutMemoryRoundedUp(role, factor) ==
    LET memory == byteStringAsMiB(role.memory)
    IN  IF role.memoryOverhead.set
        THEN memory + byteStringAsMiB(role.memoryOverhead.value)
        ELSE IF memory * factor.num >= MinMemoryOverheadMiB * factor.den
        THEN memory + (memory * factor.num + factor.den - 1) \div factor.den
        ELSE memory + MinMemoryOverheadMiB

\* A faulty variant: the explicit memory overhead of the role is ignored.
MutMemoryIgnoresExplicitOverhead(role, factor) ==
    LET memory == byteStringAsMiB(role.memory)
    IN  IF memory * factor.num >= MinMemoryOverheadMiB * factor.den
        THEN memory + (memory * factor.num) \div factor.den
        ELSE memory + MinMemoryOverheadMiB

\* The memory a pod of the role asks for, in whole MiB: its memory plus its
\* explicit overhead, or plus the larger of the least overhead and memory times
\* factor; what is left of a MiB is dropped.
memoryRequestMiB(role, factor) ==
    LET memory == byteStringAsMiB(role.memory)
    IN  IF role.memoryOverhead.set
        THEN memory + byteStringAsMiB(role.memoryOverhead.value)
        ELSE IF memory * factor.num >= MinMemoryOverheadMiB * factor.den
        THEN memory + (memory * factor.num) \div factor.den
        ELSE memory + MinMemoryOverheadMiB

\* A faulty variant: the core limit stands in for a missing core request.
MutCpuFromCoreLimit(role) ==
    IF role.coreRequest.set THEN role.coreRequest.value
    ELSE IF role.coreLimit.set THEN role.coreLimit.value
    ELSE ToString(role.cores)

\* The cpu a pod of the role asks for: its core request, or its cores.
cpuRequest(role) ==
    IF role.coreRequest.set THEN role.coreRequest.value ELSE ToString(role.cores)

\* The minimum resources of a task group.
minResources(role, factor) ==
    Put(Entry("cpu", cpuRequest(role)),
        "memory", ToString(memoryRequestMiB(role, factor)) \o "Mi")

Max(a, b) == IF a >= b THEN a ELSE b

\* A faulty variant: the initial executors of dynamic allocation are left out.
MutInitialNumExecutorsWithoutInitial(app) ==
    LET instances == IF app.instances.set THEN app.instances.value ELSE 0
        dyn == app.dynamicAllocation
        minExecutors ==
            IF dyn.set /\ dyn.minExecutors.set THEN dyn.minExecutors.value ELSE 0
    IN  Max(instances, minExecutors)

\* The executors the gang is sized for: the most of the instances, the minimum
\* and the initial executors of dynamic allocation, each 0 when unset.
initialNumExecutors(app) ==
    LET instances == IF app.instances.set THEN app.instances.value ELSE 0
        dyn == app.dynamicAllocation
        minExecutors ==
            IF dyn.set /\ dyn.minExecutors.set THEN dyn.minExecutors.value ELSE 0
        initialExecutors ==
            IF dyn.set /\ dyn.initialExecutors.set THEN dyn.initialExecutors.value
            ELSE 0
    IN  Max(Max(instances, minExecutors), initialExecutors)

\* A faulty variant: the selector of the application wins on a key of both.
MutMergeNodeSelectorAppWins(appNodeSelector, podNodeSelector) ==
    LET nodeSelector == Copy(Copy(EmptyMap, podNodeSelector.m), appNodeSelector.m)
    IN  IF DOMAIN nodeSelector = {} THEN NilMap ELSE MapOf(nodeSelector)

\* mergeNodeSelector(appNodeSelector, podNodeSelector): the selector of the
\* application overridden by that of the role, nil when without entries.
mergeNodeSelector(appNodeSelector, podNodeSelector) ==
    LET nodeSelector == Copy(Copy(EmptyMap, appNodeSelector.m), podNodeSelector.m)
    IN  IF DOMAIN nodeSelector = {} THEN NilMap ELSE MapOf(nodeSelector)

\* A role of the application (Driver or Executor) as far as Schedule reads and
\* writes it; tolerations and affinity are carried as their JSON text, "" and
\* nil when the role has none.
RoleSpec(cores, coreRequest, coreLimit, memory, memoryOverhead) ==
    [cores |-> cores, coreRequest |-> coreRequest, coreLimit |-> coreLimit,
     memory |-> memory, memoryOverhead |-> memoryOverhead,
     nodeSelector |-> NilMap, tolerations |-> "", affinity |-> NilPointer,
     labels |-> NilMap, annotations |-> NilMap]

ExampleTolerations ==
    "[{\"key\":\"example-key\",\"operator\":\"Equal\",\"value\":\"example-value\","
        \o "\"effect\":\"NoSchedule\"}]"
ExampleAffinity == "{\"nodeAffinity\":{}}"

\* The roles that differ in the resources they ask for.
ResourceRoles ==
    { RoleSpec(cores, coreRequest, coreLimit, memory, memoryOverhead) :
        cores \in {1, 4},
        coreRequest \in {NilPointer, PointerTo("2000m")},
        coreLimit \in {NilPointer, PointerTo("1200m")},
        memory \in {"512m", "1g", "8g", "64g"},
        memoryOverhead \in {NilPointer, PointerTo("2g")} }

\* The role of the first fixture of TestSchedule.
PlainRole == RoleSpec(1, NilPointer, PointerTo("1200m"), "512m", NilPointer)

\* The roles that differ in where their pods may be placed.
PlacementRoles ==
    { [PlainRole EXCEPT !.nodeSelector = nodeSelector, !.tolerations = tolerations,
                        !.affinity = affinity, !.labels = labels] :
        nodeSelector \in {NilMap, MapOf(EmptyMap),
                          MapOf(Put(Entry("key", "newvalue"), "key2", "value2"))},
        tolerations \in {"", ExampleTolerations},
        affinity \in {NilPointer, PointerTo(ExampleAffinity)},
        labels \in {NilMap, MapOf(Entry("label", "value"))} }

\* v1beta2.DynamicAllocation, nil or with its executor counts.
NoDynamicAllocation ==
    [set |-> FALSE, minExecutors |-> NilPointer, initialExecutors |-> NilPointer]
DynamicAllocations ==
    {NoDynamicAllocation}
        \cup [set : {TRUE},
              minExecutors : {NilPointer, PointerTo(2), PointerTo(5)},
              initialExecutors : {NilPointer, PointerTo(3), PointerTo(8)}]

\* The application as far as Schedule reads and writes it; queue is the queue of
\* its batch scheduler options, nil also when it has no such options.
SchedulerApp(type, factor, nodeSelector, driver, executor, instances, dyn, queue) ==
    [type |-> type, memoryOverheadFactor |-> factor, nodeSelector |-> nodeSelector,
     driver |-> driver, executor |-> executor, instances |-> instances,
     dynamicAllocation |-> dyn, queue |-> queue]

\* The applications Schedule is tried on: those that differ in the resources of
\* one role, those that differ in placement and queue, and those that differ in
\* the executors they ask for.
SchedulerApps ==
    { SchedulerApp(type, factor, NilMap, driver, executor, PointerTo(2),
                   NoDynamicAllocation, PointerTo("root.default")) :
        type \in SparkApplicationTypes,
        factor \in {NilPointer, PointerTo("0.3")},
        driver \in ResourceRoles,
        executor \in {PlainRole,
                      RoleSpec(8, NilPointer, NilPointer, "64g", PointerTo("2g"))} }
    \cup
    { SchedulerApp(type, factor, NilMap, PlainRole, executor, PointerTo(2),
                   NoDynamicAllocation, NilPointer) :
        type \in SparkApplicationTypes,
        factor \in {NilPointer, PointerTo("0.3")},
        executor \in ResourceRoles }
    \cup
    { SchedulerApp("Python", NilPointer, nodeSelector, driver, executor, PointerTo(1),
                   NoDynamicAllocation, queue) :
        nodeSelector \in {NilMap, MapOf(EmptyMap), MapOf(Entry("key", "value"))},
        driver \in PlacementRoles,
        executor \in PlacementRoles,
        queue \in {NilPointer, PointerTo("root.default")} }
    \cup
    { SchedulerApp("Scala", NilPointer, NilMap, PlainRole, PlainRole, instances, dyn,
                   queue) :
        instances \in {NilPointer, PointerTo(1), PointerTo(2), PointerTo(4)},
        dyn \in DynamicAllocations,
        queue \in {NilPointer, PointerTo("root.default")} }

\* taskGroup: one per role.
TaskGroup(name, minMember, minResource, nodeSelector, role) ==
    [name |-> name, minMember |-> minMember, minResource |-> minResource,
     nodeSelector |-> nodeSelector, tolerations |-> role.tolerations,
     affinity |-> role.affinity, labels |-> role.labels]

\* The task groups of an application: the driver, then the executors.
taskGroupsOf(app) ==
    LET factor == memoryOverheadFactor(app)
    IN  << TaskGroup(driverTaskGroupName, 1, minResources(app.driver, factor),
                     mergeNodeSelector(app.nodeSelector, app.driver.nodeSelector),
                     app.driver),
           TaskGroup(executorTaskGroupName, initialNumExecutors(app),
                     minResources(app.executor, factor),
                     mergeNodeSelector(app.nodeSelector, app.executor.nodeSelector),
                     app.executor) >>

\* encoding/json: a string, and a map with its keys in order; the keys the maps
\* of the model can have, in that order.
SortedKeys == <<"cpu", "key", "key2", "label", "memory", "queue">>
Quoted(s) == "\"" \o s \o "\""

RECURSIVE MarshalEntries(_, _, _)
MarshalEntries(m, i, first) ==
    IF i > Len(SortedKeys) THEN ""
    ELSE LET k == SortedKeys[i]
         IN  IF k \in DOMAIN m
             THEN (IF first THEN "" ELSE ",") \o Quoted(k) \o ":" \o Quoted(m[k])
                     \o MarshalEntries(m, i + 1, FALSE)
             ELSE MarshalEntries(m, i + 1, first)

MarshalMap(m) == "{" \o MarshalEntries(m, 1, TRUE) \o "}"

\* json.Marshal of a task group; what is empty is left out, but for the name and
\* the minimum member count.
MarshalTaskGroup(g) ==
    "{\"name\":" \o Quoted(g.name) \o ",\"minMember\":" \o ToString(g.minMember)
        \o (IF DOMAIN g.minResource = {} THEN ""
            ELSE ",\"minResource\":" \o MarshalMap(g.minResource))
        \o (IF DOMAIN g.nodeSelector.m = {} THEN ""
            ELSE ",\"nodeSelector\":" \o MarshalMap(g.nodeSelector.m))
        \o (IF g.tolerations = "" THEN "" ELSE ",\"tolerations\":" \o g.tolerations)
        \o (IF ~g.affinity.set THEN "" ELSE ",\"affinity\":" \o g.affinity.value)
        \o (IF DOMAIN g.labels.m = {} THEN ""
            ELSE ",\"labels\":" \o MarshalMap(g.labels.m))
        \o "}"

\* json.Marshal of the list of task groups.
MarshalTaskGroups(groups) ==
    "[" \o MarshalTaskGroup(groups[1]) \o "," \o MarshalTaskGroup(groups[2]) \o "]"

\* A faulty variant: the annotation is written on the executor as well.
MutAddTaskGroupAnnotationOnBothRoles(app, groups) ==
    LET value == MarshalTaskGroups(groups)
    IN  [app EXCEPT
            !.driver.annotations = MapOf(Put(@.m, taskGroupsAnnotation, value)),
            !.executor.annotations = MapOf(Put(@.m, taskGroupsAnnotation, value))]

\* The list of task groups, encoded, becomes the annotation of the driver.
addTaskGroupAnnotation(app, groups) ==
    [app EXCEPT
        !.driver.annotations =
            MapOf(Put(@.m, taskGroupsAnnotation, MarshalTaskGroups(groups)))]

\* The queue of the application, if it names one, becomes the queue label of
\* the driver and of the executor.
addQueueLabels(app) ==
    IF ~app.queue.set THEN app
    ELSE [app EXCEPT
            !.driver.labels = MapOf(Put(@.m, queueLabel, app.queue.value)),
            !.executor.labels = MapOf(Put(@.m, queueLabel, app.queue.value))]

\* Calls of Schedule on the application object.
MaxScheduleCalls == 2

NotScheduled == [calls |-> 0, taskGroups |-> <<>>, err |-> FALSE]

SchedulerInit ==
    /\ scheduledApp \in SchedulerApps
    /\ scheduling = NotScheduled

SchedulerIdle ==
    /\ scheduledApp =
          SchedulerApp("Scala", NilPointer, NilMap, PlainRole, PlainRole, PointerTo(2),
                       NoDynamicAllocation, NilPointer)
    /\ scheduling = NotScheduled

\* Scheduler.Schedule(app): the task groups are computed from the application
\* and written as the annotation of the driver, then the queue labels are set.
Schedule ==
    /\ scheduling.calls < MaxScheduleCalls
    /\ LET taskGroups == taskGroupsOf(scheduledApp)
       IN  /\ scheduledApp' =
                 addQueueLabels(addTaskGroupAnnotation(scheduledApp, taskGroups))
           /\ scheduling' =
                 [calls |-> scheduling.calls + 1, taskGroups |-> taskGroups,
                  err |-> FALSE]
    /\ UNCHANGED NotSchedulerVars

SchedulerNext == Schedule

-----------------------------------------------------------------------------
(* The start command: start and upgradeCRDs.                               *)

\* The .yaml files the walk of crdsPath can find.
MaxCRDFiles == 2

CRDNames ==
    {"sparkapplications.sparkoperator.k8s.io",
     "scheduledsparkapplications.sparkoperator.k8s.io"}

\* A []string: nil, or allocated and empty.
NilSlice == [nil |-> TRUE, elems |-> <<>>]
EmptySlice == [nil |-> FALSE, elems |-> <<>>]

\* apiextensionsv1.NoneConverter
NoneConverter == "None"

\* apiextensionsv1.CustomResourceDefinitionSpec: the schema of its versions,
\* the short names and the conversion strategy.
CRDSpecs ==
    [schema : {"schema-1", "schema-2"},
     shortNames : {NilSlice, EmptySlice},
     conversion : {NilPointer, PointerTo(NoneConverter)}]

\* A file of the walk and what util.ReadObjectFromFile makes of it: an error, or
\* the CustomResourceDefinition of the manifest.
UnreadableCRDFile == [readable |-> FALSE]
CRDFiles ==
    {UnreadableCRDFile}
        \cup [readable : {TRUE}, name : CRDNames, labels : {"labels of the manifest"},
              spec : CRDSpecs]

\* apiextensionsv1.SetDefaults_CustomResourceDefinition: a spec without a
\* conversion gets the None strategy.
SetDefaults_CustomResourceDefinition(crd) ==
    [crd EXCEPT !.spec.conversion = IF @.set THEN @ ELSE PointerTo(NoneConverter)]

\* equality.Semantic.DeepEqual on two specs: a nil and an empty slice are equal.
SemanticDeepEqual(a, b) ==
    /\ a.schema = b.schema
    /\ a.shortNames.elems = b.shortNames.elems
    /\ a.conversion = b.conversion

\* A CustomResourceDefinition at the API server: its spec, as the API server
\* defaulted it, and what else the object carries.
NoCRD == [exists |-> FALSE]
StoredCRDs ==
    {NoCRD}
        \cup [exists : {TRUE},
              spec : { spec \in CRDSpecs : spec.conversion.set /\ ~spec.shortNames.nil },
              labels : {"labels at the API server"},
              status : {"Established"}]

\* A faulty variant: Update sends the object read from the file.
MutUpdateSendsFileObject(oldCrd, crd) ==
    [exists |-> TRUE, spec |-> crd.spec, labels |-> crd.labels, status |-> ""]

\* newCrd := oldCrd.DeepCopy(); newCrd.Spec = crd.Spec
newCrd(oldCrd, crd) == [oldCrd EXCEPT !.spec = crd.spec]

\* One round of the loop over crdFiles: what it did and the object it stored.
\* Every outcome goes on with the next file.
upgradeCRD(file, oldCrd, getFails, updateFails) ==
    IF ~file.readable THEN [did |-> "read failed", stored |-> oldCrd]
    ELSE LET crd == SetDefaults_CustomResourceDefinition(file)
         IN  IF ~oldCrd.exists \/ getFails
             THEN [did |-> "get failed", stored |-> oldCrd]
             ELSE IF SemanticDeepEqual(oldCrd.spec, crd.spec)
             THEN [did |-> "skipped", stored |-> oldCrd]
             ELSE IF updateFails
             THEN [did |-> "update failed", stored |-> oldCrd]
             ELSE [did |-> "updated", stored |-> newCrd(oldCrd, crd)]

\* start has not been called.
NotStarted ==
    [pc |-> "notStarted", upgradeCrds |-> FALSE, index |-> 1, did |-> <<>>,
     err |-> FALSE]

Sequences(S, n) == UNION { [1..k -> S] : k \in 0..n }

UpgradeInit ==
    /\ crdFiles \in Sequences(CRDFiles, MaxCRDFiles)
    /\ storedCRDs \in [CRDNames -> StoredCRDs]
    /\ upgrade = NotStarted

UpgradeIdle ==
    /\ crdFiles = <<>>
    /\ storedCRDs = [name \in CRDNames |-> NoCRD]
    /\ upgrade = NotStarted

\* start, and upgradeCRDs up to its loop: without the upgrade-crds flag start
\* returns nil at once; without a kube config the process exits; a client that
\* cannot be made or a walk that fails is returned as an error.
start ==
    /\ upgrade.pc = "notStarted"
    /\ \E upgradeCrds \in BOOLEAN,
          failure \in {"none", "GetConfig", "client.New", "filepath.Walk"} :
          upgrade' =
             IF ~upgradeCrds
             THEN [upgrade EXCEPT !.pc = "returned"]
             ELSE [upgrade EXCEPT
                      !.upgradeCrds = TRUE,
                      !.pc = CASE failure = "none" -> "loop"
                               [] failure = "GetConfig" -> "exited"
                               [] OTHER -> "returned",
                      !.err = failure \in {"client.New", "filepath.Walk"}]
    /\ UNCHANGED <<crdFiles, storedCRDs>>
    /\ UNCHANGED NotUpgradeVars

\* The loop takes the next file.
UpgradeCRD ==
    /\ upgrade.pc = "loop"
    /\ upgrade.index <= Len(crdFiles)
    /\ \E getFails \in BOOLEAN, updateFails \in BOOLEAN :
          LET file == crdFiles[upgrade.index]
          IN  IF ~file.readable
              THEN /\ upgrade' =
                         [upgrade EXCEPT
                             !.index = @ + 1,
                             !.did = Append(@, upgradeCRD(file, NoCRD, getFails,
                                                          updateFails).did)]
                   /\ UNCHANGED storedCRDs
              ELSE LET round == upgradeCRD(file, storedCRDs[file.name], getFails,
                                           updateFails)
                   IN  /\ upgrade' =
                              [upgrade EXCEPT !.index = @ + 1,
                                              !.did = Append(@, round.did)]
                       /\ storedCRDs' = [storedCRDs EXCEPT ![file.name] = round.stored]
    /\ UNCHANGED crdFiles
    /\ UNCHANGED NotUpgradeVars

\* The loop is through: upgradeCRDs returns nil, and so does start.
UpgradeCRDsReturn ==
    /\ upgrade.pc = "loop"
    /\ upgrade.index > Len(crdFiles)
    /\ upgrade' = [upgrade EXCEPT !.pc = "returned"]
    /\ UNCHANGED <<crdFiles, storedCRDs>>
    /\ UNCHANGED NotUpgradeVars

UpgradeNext == start \/ UpgradeCRD \/ UpgradeCRDsReturn

-----------------------------------------------------------------------------
(* Specifications.                                                         *)

\* Each component runs from its own initial state while the others stay idle.
RouterIdle == RouterInit

RouterSpecInit ==
    RouterInit /\ WebhookIdle /\ CertIdle /\ LifecycleIdle /\ MetricsIdle
        /\ MonitoringIdle /\ SchedulerIdle /\ UpgradeIdle
RouterSpec == RouterSpecInit /\ [][RouterNext]_vars

WebhookSpecInit ==
    WebhookInit /\ RouterIdle /\ CertIdle /\ LifecycleIdle /\ MetricsIdle
        /\ MonitoringIdle /\ SchedulerIdle /\ UpgradeIdle
WebhookSpec == WebhookSpecInit /\ [][WebhookNext]_vars

CertSpecInit ==
    CertInit /\ RouterIdle /\ WebhookIdle /\ LifecycleIdle /\ MetricsIdle
        /\ MonitoringIdle /\ SchedulerIdle /\ UpgradeIdle
CertSpec == CertSpecInit /\ [][CertNext]_vars

\* The certificate provider with the scheduling Go gives it: a goroutine that can
\* take its next step takes it in the end, the reload goroutine as well as a
\* handshake that holds the read lock and the caller of Stop.
CertFairSpec ==
    /\ CertSpecInit /\ [][CertNext]_vars
    /\ WF_vars(SelectStop) /\ WF_vars(SelectTick)
    /\ WF_vars(UpdateCertLoad) /\ WF_vars(UpdateCertLock)
    /\ WF_vars(UpdateCertWrite) /\ WF_vars(UpdateCertUnlock)
    /\ WF_vars(GetCertificateRead) /\ WF_vars(GetCertificateRUnlock)
    /\ WF_vars(StopTicker)

LifecycleSpecInit ==
    LifecycleInit /\ RouterIdle /\ WebhookIdle /\ CertIdle /\ MetricsIdle
        /\ MonitoringIdle /\ SchedulerIdle /\ UpgradeIdle
LifecycleSpec == LifecycleSpecInit /\ [][LifecycleNext]_vars

MetricsSpecInit ==
    MetricsInit /\ RouterIdle /\ WebhookIdle /\ CertIdle /\ LifecycleIdle
        /\ MonitoringIdle /\ SchedulerIdle /\ UpgradeIdle
MetricsSpec == MetricsSpecInit /\ [][MetricsNext]_vars

MonitoringSpecInit ==
    MonitoringInit /\ RouterIdle /\ WebhookIdle /\ CertIdle /\ LifecycleIdle
        /\ MetricsIdle /\ SchedulerIdle /\ UpgradeIdle
MonitoringSpec == MonitoringSpecInit /\ [][MonitoringNext]_vars

MonitoringConflictSpecInit ==
    MonitoringConflictInit /\ RouterIdle /\ WebhookIdle /\ CertIdle /\ LifecycleIdle
        /\ MetricsIdle /\ SchedulerIdle /\ UpgradeIdle
MonitoringConflictSpec == MonitoringConflictSpecInit /\ [][MonitoringConflictNext]_vars

SchedulerSpecInit ==
    SchedulerInit /\ RouterIdle /\ WebhookIdle /\ CertIdle /\ LifecycleIdle
        /\ MetricsIdle /\ MonitoringIdle /\ UpgradeIdle
SchedulerSpec == SchedulerSpecInit /\ [][SchedulerNext]_vars

UpgradeSpecInit ==
    UpgradeInit /\ RouterIdle /\ WebhookIdle /\ CertIdle /\ LifecycleIdle
        /\ MetricsIdle /\ MonitoringIdle /\ SchedulerIdle
UpgradeSpec == UpgradeSpecInit /\ [][UpgradeNext]_vars

\* All components side by side.
Init ==
    RouterInit /\ WebhookInit /\ CertInit /\ LifecycleInit /\ MetricsInit
        /\ MonitoringInit /\ SchedulerInit /\ UpgradeInit
Next ==
    RouterNext \/ WebhookNext \/ CertNext \/ LifecycleNext \/ MetricsNext
        \/ MonitoringNext \/ SchedulerNext \/ UpgradeNext
Spec == Init /\ [][Next]_vars

-----------------------------------------------------------------------------
(* Properties of the pod event router.                                     *)

\* The pod a notification is about: the object itself, or the pod a tombstone wraps.
DeliveredHasPod ==
    /\ delivered.kind \in {"add", "update", "delete"}
    /\ \/ delivered.obj.type = "Pod"
       \/ /\ delivered.obj.type = "DeletedFinalStateUnknown"
          /\ delivered.obj.obj.type = "Pod"

DeliveredPod ==
    IF delivered.obj.type = "Pod" THEN delivered.obj.pod ELSE delivered.obj.obj.pod

\* A step in which a handler ran (and left a different record than the one before).
RouterHandlerStep ==
    <<delivered, enqueued, handlerPanicked>>' # <<delivered, enqueued, handlerPanicked>>

\* The index holds the application the pod names, with the pod's submission ID.
SubmissionMatches(lister, pod) ==
    LET app == ListerGet(lister, pod.namespace, Label(pod.labels, SparkAppNameLabel))
    IN  /\ app.found
        /\ app.submissionID = Label(pod.labels, SubmissionIDLabel)

\* C1: for every pod add, update or delete notification whose pod carries a
\* submission-ID label, the enqueue function is called only if the cached index
\* returns the application named by the pod's app-name label in the pod's
\* namespace and its Status.SubmissionID equals the label value.
C1_StaleSubmissionNeverEnqueued ==
    [][ (RouterHandlerStep
           /\ DeliveredHasPod'
           /\ HasLabel(DeliveredPod'.labels, SubmissionIDLabel)
           /\ enqueued' # <<>>)
        => SubmissionMatches(applicationLister, DeliveredPod') ]_vars

\* C1 witness: a pod with a submission-ID label was enqueued.
C1_Witness ==
    /\ DeliveredHasPod
    /\ HasLabel(DeliveredPod.labels, SubmissionIDLabel)
    /\ enqueued # <<>>

\* C6: a pod update notification whose old and updated pod carry the same
\* resource version never causes an enqueue, whatever the pod's labels.
C6_UnchangedVersionNotEnqueued ==
    (delivered.kind = "update"
       /\ delivered.old.pod.resourceVersion = delivered.obj.pod.resourceVersion)
    => enqueued = <<>>

\* C6 witness: an update with an unchanged resource version was dropped for a pod
\* that an add notification would have enqueued.
C6_Witness ==
    /\ delivered.kind = "update"
    /\ delivered.old.pod.resourceVersion = delivered.obj.pod.resourceVersion
    /\ HasLabel(delivered.obj.pod.labels, SparkAppNameLabel)
    /\ ~HasLabel(delivered.obj.pod.labels, SubmissionIDLabel)
    /\ enqueued = <<>>

\* C7 (as claimed): a deletion of a live pod or of a tombstone wrapping a pod is
\* enqueued exactly when that pod names an application and its submission-ID
\* label, if any, matches the index; a tombstone wrapping no pod and any other
\* object shape cause no enqueue and the handler returns without panicking.
C7_DeleteHandlesEveryShape ==
    [][ (RouterHandlerStep /\ delivered'.kind = "delete")
        => /\ ~handlerPanicked'
           /\ IF DeliveredHasPod'
              THEN (enqueued' # <<>>)
                     <=> /\ HasLabel(DeliveredPod'.labels, SparkAppNameLabel)
                         /\ \/ ~HasLabel(DeliveredPod'.labels, SubmissionIDLabel)
                            \/ SubmissionMatches(applicationLister, DeliveredPod')
              ELSE enqueued' = <<>> ]_vars

\* C8 (as claimed): a key is enqueued only for pods carrying the launched-by
\* marker and a driver or executor role marker.
C8_OnlyMarkedPodsEnqueued ==
    (DeliveredHasPod /\ enqueued # <<>>)
    => /\ Label(DeliveredPod.labels, LaunchedBySparkOperatorLabel) = "true"
       /\ Label(DeliveredPod.labels, SparkRoleLabel) \in {SparkDriverRole, SparkExecutorRole}

\* C9: a pod notification's only effect is at most one call of the enqueue
\* function, with the key made of the pod's namespace and application-name
\* label; the cached index (and the applications in it) is left as it was.
C9_AtMostOneEnqueueOfThePodsKey ==
    [][ (RouterHandlerStep /\ DeliveredHasPod')
        => /\ Len(enqueued') <= 1
           /\ \A i \in 1..Len(enqueued') :
                 enqueued'[i] = <<DeliveredPod'.namespace,
                                  Label(DeliveredPod'.labels, SparkAppNameLabel)>>
           /\ applicationLister' = applicationLister ]_vars

\* C9 witness: a notification enqueued its one key.
C9_Witness ==
    /\ DeliveredHasPod
    /\ Len(enqueued) = 1
    /\ HasLabel(DeliveredPod.labels, SparkAppNameLabel)
    /\ ~HasLabel(DeliveredPod.labels, SubmissionIDLabel)

-----------------------------------------------------------------------------
(* Properties of the admission webhook.                                    *)

\* A step in which serve ran (and left a different record than the one before).
WebhookServeStep == <<httpRequest, httpResponse>>' # <<httpRequest, httpResponse>>

Requested == httpRequest.kind = "request"

\* The request has a body that is read, is not empty, and is declared as JSON.
ReachesDecoding(r) ==
    /\ r.body.kind = "bytes"
    /\ r.body.bytes.enc # "empty"
    /\ r.contentType = "application/json"

\* The body decodes to an AdmissionReview that carries a request.
CarriesRequest(r) ==
    /\ ReachesDecoding(r)
    /\ r.body.bytes.enc = "review"
    /\ r.body.bytes.review.present

RequestOf(r) == r.body.bytes.review.request

\* The review is about the pod resource and its object is the JSON of a pod.
CarriesPod(r) ==
    /\ CarriesRequest(r)
    /\ RequestOf(r).resource = podResource
    /\ RequestOf(r).raw.json = "pod"

PodOf(r) == RequestOf(r).raw.pod

\* The pod carries the launched-by marker and a driver or executor role.
OperatorLaunched(pod) ==
    /\ Label(pod.labels, LaunchedBySparkOperatorLabel) = "true"
    /\ Label(pod.labels, SparkRoleLabel) \in {SparkDriverRole, SparkExecutorRole}

\* The pod is one the webhook is to patch: launched by the operator, in the job
\* namespace, naming an application.
SubjectToMutation(r, jobNs) ==
    /\ CarriesPod(r)
    /\ OperatorLaunched(PodOf(r))
    /\ (jobNs = NamespaceAll \/ RequestOf(r).namespace = jobNs)
    /\ Label(PodOf(r).labels, SparkAppNameLabel) # ""

AppOf(r, index) ==
    ListerGet(index, RequestOf(r).namespace, Label(PodOf(r).labels, SparkAppNameLabel))

HasResponse(out) == out.review.built /\ out.review.response # NilResponse

\* C2: every admission response the webhook produces has Allowed = true, whether
\* the decoding fails, the pod JSON cannot be unmarshalled, the application
\* lookup fails, the patch cannot be marshalled or the mutation succeeds; each
\* error case carries the error's text in the result message.
C2_EveryResponseAllows ==
    [][ WebhookServeStep =>
          LET r == httpRequest'.request
              out == httpResponse'
              resp == out.review.response
          IN  /\ HasResponse(out) => resp.allowed = TRUE
              /\ (ReachesDecoding(r) /\ r.body.bytes.enc = "garbage")
                   => /\ HasResponse(out)
                      /\ resp.result.set /\ resp.result.message = DecodeError
              /\ (CarriesRequest(r) /\ RequestOf(r).resource = podResource
                    /\ RequestOf(r).raw.json # "pod")
                   => /\ HasResponse(out)
                      /\ resp.result.set /\ resp.result.message = UnmarshalError
              /\ (SubjectToMutation(r, sparkJobNamespace) /\ ~AppOf(r, webhookLister).found)
                   => /\ HasResponse(out)
                      /\ resp.result.set /\ resp.result.message = NotFoundError
              /\ (SubjectToMutation(r, sparkJobNamespace) /\ AppOf(r, webhookLister).found)
                   => /\ HasResponse(out)
                      /\ \/ ~resp.result.set
                         \/ resp.result.message = MarshalError /\ resp.patch = NoPatch
        ]_vars

\* C2 witness: an error response was produced for a failed application lookup.
C2_Witness ==
    /\ Requested
    /\ HasResponse(httpResponse)
    /\ httpResponse.review.response.result.set
    /\ httpResponse.review.response.result.message = NotFoundError

\* C3: for a review of a pod, the webhook returns a pass-through response
\* (Allowed = true, no Patch, no PatchType) whenever the pod is not
\* operator-launched with a driver or executor role, or the request namespace is
\* not the configured job namespace (NamespaceAll matches every namespace), or
\* the application-name label is empty, or the application is not in the index.
C3_PassThrough ==
    [][ (WebhookServeStep
           /\ CarriesPod(httpRequest'.request)
           /\ \/ ~SubjectToMutation(httpRequest'.request, sparkJobNamespace)
              \/ ~AppOf(httpRequest'.request, webhookLister).found)
        => /\ HasResponse(httpResponse')
           /\ httpResponse'.review.response.allowed = TRUE
           /\ httpResponse'.review.response.patch = NoPatch
           /\ httpResponse'.review.response.patchType = NoPatchType ]_vars

\* C3 witness: an operator-launched pod outside the configured job namespace was
\* passed through although its application is in the index with a patch to apply.
C3_Witness ==
    /\ Requested
    /\ CarriesPod(httpRequest.request)
    /\ OperatorLaunched(PodOf(httpRequest.request))
    /\ sparkJobNamespace # NamespaceAll
    /\ RequestOf(httpRequest.request).namespace # sparkJobNamespace
    /\ AppOf(httpRequest.request, webhookLister).found
    /\ Len(AppOf(httpRequest.request, webhookLister).patchOps) > 0
    /\ HasResponse(httpResponse)
    /\ httpResponse.review.response.patch = NoPatch

\* No admission review was decoded or performed.
NoReviewPerformed(out) ==
    /\ ~out.decoded
    /\ ~out.mutateCalled
    /\ ~out.unmarshalled
    /\ ~out.lookedUp
    /\ ~out.review.built

\* C4: a request with an empty body is answered 400, one with a non-empty body
\* and a Content-Type other than application/json is answered 415; in both cases
\* no admission review is decoded or performed.
C4_ClientErrors ==
    Requested =>
      LET r == httpRequest.request
      IN  /\ (r.body.kind = "nil" \/ (r.body.kind = "bytes" /\ r.body.bytes.enc = "empty"))
               => /\ httpResponse.status = StatusBadRequest
                  /\ NoReviewPerformed(httpResponse)
          /\ (r.body.kind = "bytes" /\ r.body.bytes.enc # "empty"
                /\ r.contentType # "application/json")
               => /\ httpResponse.status = StatusUnsupportedMediaType
                  /\ NoReviewPerformed(httpResponse)

\* C4 witness: a well-formed review sent as text/plain was answered 415.
C4_Witness ==
    /\ Requested
    /\ httpRequest.request.body.kind = "bytes"
    /\ httpRequest.request.body.bytes.enc = "review"
    /\ httpRequest.request.contentType = "text/plain"
    /\ httpResponse.status = StatusUnsupportedMediaType

\* C5: when the request's resource is not the core v1 pods resource, mutatePods
\* produces no response: the AdmissionReview written back has a nil Response, and
\* the pod object is neither unmarshalled nor looked up.
C5_OtherResourceNoResponse ==
    (Requested /\ CarriesRequest(httpRequest.request)
       /\ RequestOf(httpRequest.request).resource # podResource)
    => /\ httpResponse.mutateCalled
       /\ httpResponse.review = BuiltReview(NilResponse)
       /\ ~httpResponse.unmarshalled
       /\ ~httpResponse.lookedUp

\* C5 witness: a review of another resource, carrying the JSON of an
\* operator-launched pod, was written back without a response.
C5_Witness ==
    /\ Requested
    /\ CarriesRequest(httpRequest.request)
    /\ RequestOf(httpRequest.request).resource # podResource
    /\ RequestOf(httpRequest.request).raw.json = "pod"
    /\ OperatorLaunched(RequestOf(httpRequest.request).raw.pod)
    /\ httpResponse.status = StatusOK
    /\ httpResponse.review = BuiltReview(NilResponse)

-----------------------------------------------------------------------------
(* Properties of the certificate provider.                                 *)

\* C10: when a reload fails to load the key pair, the active certificate is left
\* as it was, and every handshake that reads after the failed reload is served
\* the certificate that was active before it; a successful reload replaces the
\* active certificate with the newly loaded one.
C10_FailedReloadKeepsCertificate ==
    /\ reload.result = "failed" => currentCert = reload.before
    /\ reload.result = "ok" => (reload.files.valid /\ currentCert = reload.files.cert)
    /\ \A h \in Handshakes :
          (handshakes[h].pc = "read" /\ handshakes[h].beforeFailedReload # NoCertificate)
          => handshakes[h].cert = handshakes[h].beforeFailedReload

\* C10 witness: a reload of broken files has failed and a handshake has read the
\* certificate since.
C10_Witness ==
    /\ reload.result = "failed"
    /\ ~reload.files.valid
    /\ \E h \in Handshakes :
          /\ handshakes[h].pc = "read"
          /\ handshakes[h].beforeFailedReload = reload.before
          /\ handshakes[h].cert = currentCert

\* The handshakes that hold the read lock.
ReadLockHolders == { h \in Handshakes : handshakes[h].pc \in {"rlocked", "read"} }

\* The reload goroutine holds the write lock.
WriteLockHeld == reloader.pc \in {"write", "unlock"}

\* The certificates a handshake may be given while the last reload is what it is:
\* the one active before that reload, or the one that reload has loaded.
PreviousOrNewlyLoaded ==
    {reload.before}
        \cup (IF reload.result \in {"loaded", "ok"} THEN {reload.files.cert} ELSE {})

\* Handshake h evaluates c.currentCert in this step.
ReadsCertificate(h) == handshakes[h].pc = "rlocked" /\ handshakes'[h].pc = "read"

\* C11: under every interleaving of handshakes and reloads, currentCert is read
\* only while the read lock is held and written only while the write lock is
\* held, no reader is in while the writer is, and every handshake is given a
\* certificate that is not nil and is the one active before the last reload or
\* the one that reload loaded.
C11_CertificatePointerLockDiscipline ==
    /\ [] /\ certPointerMutex.readers = Cardinality(ReadLockHolders)
          /\ certPointerMutex.writer <=> WriteLockHeld
          /\ ~(certPointerMutex.writer /\ certPointerMutex.readers > 0)
          /\ currentCert # NoCertificate
          /\ \A h \in Handshakes :
                handshakes[h].pc = "read" => handshakes[h].cert # NoCertificate
    /\ [][ /\ currentCert' # currentCert
              => /\ certPointerMutex.writer /\ certPointerMutex'.writer
                 /\ certPointerMutex.readers = 0
           /\ \A h \in Handshakes :
                 ReadsCertificate(h)
                 => /\ ~certPointerMutex.writer /\ certPointerMutex.readers >= 1
                    /\ handshakes'[h].cert = currentCert
                    /\ reload.result # "none"
                         => handshakes'[h].cert \in PreviousOrNewlyLoaded ]_vars

\* C11 witness: two handshakes hold the read lock at once, one of them has read
\* the certificate, and the reload goroutine waits in Lock() with a new one.
C11_Witness ==
    /\ certPointerMutex.readers = 2
    /\ \E h \in Handshakes : handshakes[h].pc = "read" /\ handshakes[h].cert = currentCert
    /\ reloader.pc = "lock"
    /\ reloader.cert # currentCert

-----------------------------------------------------------------------------
(* Properties of the webhook's life cycle.                                 *)

\* The call of selfRegistration or selfDeregistration completed last.
LastCall == calls[Len(calls)]

\* A step in which Start runs, and one in which Stop asks the server to shut down.
StartStep == hook.pc = "new" /\ hook'.pc = "idle"
ShutdownStep == ~server.shutdown.asked /\ server'.shutdown.asked

\* The one webhook the configuration is to hold: it ignores failures, has one
\* rule for CREATE on core v1 pods, and points at the configured service with
\* the CA bundle of the CA file.
ExpectedWebhook(caBundle) ==
    [name |-> "webhook.sparkoperator.k8s.io",
     rules |-> <<[operations |-> <<"CREATE">>, apiGroups |-> <<"">>,
                  apiVersions |-> <<"v1">>, resources |-> <<"pods">>]>>,
     clientConfig |-> [service |-> serviceRef, caBundle |-> caBundle],
     failurePolicy |-> "Ignore"]

\* C12 (as claimed): after any call of WebHook.Stop, whatever it returns, the
\* reload ticker has been stopped and the server has been asked to shut down
\* with a drain time of 10 seconds.
C12_StopAlwaysCancelsAndShutsDown ==
    hook.stopReturned
    => /\ tickerStopped
       /\ stopChannelClosed
       /\ server.shutdown.asked
       /\ server.shutdown.timeoutSeconds = 10

\* C13: on shutdown the configuration is deleted before the certificate
\* reloader is stopped and before the server is asked to shut down; the server is
\* never asked to shut down while the configuration is still registered.
C13_DeregisteredBeforeShutdown ==
    /\ [] /\ (stopChannelClosed \/ tickerStopped \/ stopper # "notCalled")
                => hook.deregistered
          /\ server.shutdown.asked
                => /\ hook.deregistered
                   /\ ~webhookConfiguration.exists
                   /\ tickerStopped
    /\ [][ ((~tickerStopped /\ tickerStopped') \/ ShutdownStep)
           => /\ ~webhookConfiguration.exists
              /\ LastCall.op = "selfDeregistration"
              /\ ~LastCall.err ]_vars

\* C13 witness: a configuration that Start had registered is gone, the reloader
\* is stopped and the server has been asked to shut down.
C13_Witness ==
    /\ server.shutdown.asked
    /\ tickerStopped
    /\ ~webhookConfiguration.exists
    /\ Len(calls) >= 2
    /\ calls[Len(calls) - 1].op = "selfRegistration"
    /\ ~calls[Len(calls) - 1].err
    /\ LastCall.op = "selfDeregistration"

\* C14: after selfRegistration returns without error, the configuration exists
\* and its webhook list is exactly the one computed webhook, with the CA bundle
\* read from the CA file, whether or not a configuration existed before and
\* whatever webhook list it held.
C14_RegistrationStoresTheComputedWebhook ==
    [][ (StartStep /\ ~LastCall'.err)
        => /\ caCertFile.readable
           /\ webhookConfiguration'.exists
           /\ webhookConfiguration'.webhooks = <<ExpectedWebhook(caCertFile.bytes)>> ]_vars

\* C14 witness: a configuration that held another webhook list was replaced.
C14_Witness ==
    /\ Len(calls) > 0
    /\ LastCall.op = "selfRegistration"
    /\ ~LastCall.err
    /\ LastCall.writes = <<"Update">>
    /\ webhookConfiguration.exists
    /\ Len(webhookConfiguration.webhooks) = 1

\* C15: selfRegistration issues neither Create nor Update when the configuration
\* exists with a webhook list equal to the computed one; a second run after a
\* successful one, with the CA file as it was, issues no write.
C15_NoWriteWhenUpToDate ==
    [][ StartStep
        => /\ (caCertFile.readable
                 /\ webhookConfiguration
                      = Configuration(<<ExpectedWebhook(caCertFile.bytes)>>))
               => /\ LastCall'.writes = <<>>
                  /\ webhookConfiguration' = webhookConfiguration
           /\ (Len(calls) > 0
                 /\ LastCall.op = "selfRegistration"
                 /\ ~LastCall.err
                 /\ LastCall.caCertFile = caCertFile)
               => /\ LastCall'.writes = <<>>
                  /\ ~LastCall'.err \/ webhookConfiguration' = webhookConfiguration ]_vars

\* C15 witness: selfRegistration ran twice in a row without error; the first run
\* wrote the configuration, the second wrote nothing.
C15_Witness ==
    /\ Len(calls) >= 2
    /\ calls[Len(calls) - 1].op = "selfRegistration"
    /\ ~calls[Len(calls) - 1].err
    /\ calls[Len(calls) - 1].writes # <<>>
    /\ LastCall.op = "selfRegistration"
    /\ ~LastCall.err
    /\ LastCall.writes = <<>>

-----------------------------------------------------------------------------
(* Properties of the application metrics.                                  *)

\* The executors whose state in the new status is the given one and differs from
\* their state in the old status (an executor the old status lacks has none).
EnteredState(oldStatus, newStatus, state) ==
    { e \in Executors :
         /\ e \in DOMAIN newStatus.executorState
         /\ newStatus.executorState[e] = state
         /\ \/ e \notin DOMAIN oldStatus.executorState
            \/ oldStatus.executorState[e] # state }

\* No executor of the new status has another state than in the old status.
NoExecutorChanged(oldStatus, newStatus) ==
    \A e \in DOMAIN newStatus.executorState :
       /\ e \in DOMAIN oldStatus.executorState
       /\ oldStatus.executorState[e] = newStatus.executorState[e]

ExecutorEffects(effects) ==
    <<effects.sparkAppExecutorRunningCountInc, effects.sparkAppExecutorRunningCountDec,
      effects.sparkAppExecutorSuccessCount, effects.sparkAppExecutorFailureCount>>

\* C16: in every call of a sequence of exportMetrics calls, the executor metrics
\* change by one effect for each executor whose state in the new status differs
\* from its state in the old one (Running: gauge up; Completed: gauge down and
\* success; Failed: gauge down and failure) and by nothing else; reporting a
\* status in which no executor state has changed changes no executor metric.
C16_ExecutorEffectsOncePerTransition ==
    [][ LET running == Cardinality(EnteredState(appStatus, appStatus', "RUNNING"))
            completed == Cardinality(EnteredState(appStatus, appStatus', "COMPLETED"))
            failed == Cardinality(EnteredState(appStatus, appStatus', "FAILED"))
        IN  /\ ExecutorEffects(metricEffects')
                 = <<running, completed + failed, completed, failed>>
            /\ NoExecutorChanged(appStatus, appStatus')
                 => ExecutorEffects(metricEffects') = <<0, 0, 0, 0>> ]_vars

\* C16 witness: a status was reported in which one executor has completed since
\* the last report and the other is running as before; one transition was counted.
C16_Witness ==
    /\ DOMAIN appStatus.executorState = Executors
    /\ appStatus.executorState["exec-1"] = "COMPLETED"
    /\ appStatus.executorState["exec-2"] = "RUNNING"
    /\ ExecutorEffects(metricEffects) = <<0, 1, 1, 0>>

\* Both timestamps of the status are set.
BothTimesSet(status) ==
    status.lastSubmissionAttemptTime # 0 /\ status.terminationTime # 0

\* C17: on a transition into Succeeding or Failing one duration is observed into
\* the success or failure execution-time summary when both
\* LastSubmissionAttemptTime and TerminationTime are set and none when either is
\* unset; the running gauge is decremented and the success or failure counter
\* incremented in both cases.
C17_DurationOnlyWhenBothTimesSet ==
    [][ (appStatus'.state # appStatus.state
           /\ appStatus'.state \in {"SUCCEEDING", "FAILING"})
        => LET succeeded == appStatus'.state = "SUCCEEDING"
               observed == IF succeeded THEN metricEffects'.sparkAppSuccessExecutionTime
                           ELSE metricEffects'.sparkAppFailureExecutionTime
               other == IF succeeded THEN metricEffects'.sparkAppFailureExecutionTime
                        ELSE metricEffects'.sparkAppSuccessExecutionTime
           IN  /\ Len(observed) = IF BothTimesSet(appStatus') THEN 1 ELSE 0
               /\ other = <<>>
               /\ metricEffects'.sparkAppRunningCountDec = 1
               /\ metricEffects'.sparkAppSuccessCount = IF succeeded THEN 1 ELSE 0
               /\ metricEffects'.sparkAppFailureCount = IF succeeded THEN 0 ELSE 1 ]_vars

\* C17 witness: an application went to Succeeding with no termination time; the
\* gauge was decremented and the success counted, and no duration was observed.
C17_Witness ==
    /\ appStatus.state = "SUCCEEDING"
    /\ appStatus.lastSubmissionAttemptTime # 0
    /\ appStatus.terminationTime = 0
    /\ metricEffects.sparkAppRunningCountDec = 1
    /\ metricEffects.sparkAppSuccessCount = 1
    /\ metricEffects.sparkAppSuccessExecutionTime = <<>>

\* C18 (as claimed): every execution duration that exportMetrics observes is
\* non-negative.
C18_ObservedDurationsNonNegative ==
    /\ \A i \in 1..Len(metricEffects.sparkAppSuccessExecutionTime) :
          metricEffects.sparkAppSuccessExecutionTime[i] >= 0
    /\ \A i \in 1..Len(metricEffects.sparkAppFailureExecutionTime) :
          metricEffects.sparkAppFailureExecutionTime[i] >= 0

-----------------------------------------------------------------------------
(* Properties of the Prometheus monitoring configuration.                  *)

\* The data the ConfigMap of the application is to hold: the metrics properties
\* and the Prometheus configuration of the application, or the defaults.
ExpectedConfigMapData(app) ==
    [k \in {"metrics.properties", "prometheus.yaml"} |->
        IF k = "metrics.properties"
        THEN IF app.metricsProperties.set THEN app.metricsProperties.value
             ELSE DefaultMetricsProperties
        ELSE IF app.configuration.set THEN app.configuration.value
             ELSE DefaultPrometheusConfiguration]

\* The ConfigMap of the application as the API server holds it.
StoredConfigMap == configMaps[monitoredApp.namespace]

\* The call uses the default monitoring configuration, not a file of the image.
DefaultMonitoring == ~monitoredApp.configFile.set

\* C19: with the default monitoring configuration, a Create or Update of the
\* call leaves a ConfigMap in the application's namespace whose data is exactly
\* the computed metrics-properties and prometheus-config entries; the application
\* spec is written only after that write has completed; and when the call has
\* returned without error the write was made and the ConfigMap, unless written
\* by someone else since, exists with that data.
C19_ConfigMapEnsuredBeforeSpecIsWritten ==
    /\ [][ /\ (~invocation.wrote /\ invocation'.wrote)
              => /\ StoredConfigMap'.exists
                 /\ StoredConfigMap'.data = ExpectedConfigMapData(monitoredApp)
                 /\ \A ns \in Namespaces \ {monitoredApp.namespace} :
                       configMaps'[ns] = configMaps[ns]
                 /\ monitoredApp' = monitoredApp
           /\ (DefaultMonitoring /\ monitoredApp' # monitoredApp)
              => /\ invocation.wrote
                 /\ configMaps' = configMaps ]_vars
    /\ [] ((DefaultMonitoring /\ invocation.returned /\ ~invocation.err)
           => /\ invocation.wrote
              /\ StoredConfigMap.resourceVersion = invocation.writtenVersion
                 => /\ StoredConfigMap.exists
                    /\ StoredConfigMap.data = ExpectedConfigMapData(monitoredApp))

\* C19 witness: the call has created the ConfigMap with the computed data and
\* returned, and the application spec carries the Spark conf entries and the
\* java-agent option of the driver.
C19_Witness ==
    /\ DefaultMonitoring
    /\ invocation.returned /\ ~invocation.err
    /\ invocation.writes = <<"Create">>
    /\ StoredConfigMap.exists
    /\ StoredConfigMap.data = ExpectedConfigMapData(monitoredApp)
    /\ "spark.metrics.conf" \in DOMAIN monitoredApp.sparkConf
    /\ monitoredApp.exposeDriverMetrics
    /\ monitoredApp.driverJavaOptions.set

\* C20 (as claimed): no Update is issued for a ConfigMap that was found holding
\* exactly the computed data.
C20_NoUpdateOfUnchangedData ==
    [][ (invocation.pc = "update" /\ Len(invocation'.writes) > Len(invocation.writes))
        => invocation.cm.data # ExpectedConfigMapData(monitoredApp) ]_vars

\* A string begins, or ends, with another.
StartsWith(s, prefix) ==
    /\ Len(prefix) <= Len(s)
    /\ SubSeq(s, 1, Len(prefix)) = prefix

EndsWith(s, suffix) ==
    /\ Len(suffix) <= Len(s)
    /\ SubSeq(s, Len(s) - Len(suffix) + 1, Len(s)) = suffix

\* The java options of a role after the java-agent option was appended to the
\* options it had before.
JavaAgentAppended(before, after, app) ==
    /\ after.set
    /\ IF ~before.set
       THEN after.value = javaOptionOf(app)
       ELSE /\ StartsWith(after.value, before.value \o " ")
            /\ EndsWith(after.value, " " \o javaOptionOf(app))

\* C21: when the application spec is written, a role whose metrics are exposed
\* has the java-agent option appended to the java options it had, after a space,
\* the options it had being a prefix of the new ones, and gets exactly the
\* java-agent option when it had none; a role whose metrics are not exposed
\* keeps its java options and its annotations.
C21_JavaAgentOptionAppended ==
    [][ monitoredApp' # monitoredApp
        => /\ IF monitoredApp.exposeDriverMetrics
              THEN JavaAgentAppended(monitoredApp.driverJavaOptions,
                                     monitoredApp'.driverJavaOptions, monitoredApp)
              ELSE /\ monitoredApp'.driverJavaOptions = monitoredApp.driverJavaOptions
                   /\ monitoredApp'.driverAnnotations = monitoredApp.driverAnnotations
           /\ IF monitoredApp.exposeExecutorMetrics
              THEN JavaAgentAppended(monitoredApp.executorJavaOptions,
                                     monitoredApp'.executorJavaOptions, monitoredApp)
              ELSE /\ monitoredApp'.executorJavaOptions = monitoredApp.executorJavaOptions
                   /\ monitoredApp'.executorAnnotations
                         = monitoredApp.executorAnnotations ]_vars

\* C21 witness: the call has returned; the driver, exposed, had "-Dlog4j.debug"
\* and now has the java-agent option after it, and the executor, not exposed,
\* still has its own options and no annotation.
C21_Witness ==
    /\ invocation.returned /\ ~invocation.err
    /\ monitoredApp.exposeDriverMetrics /\ ~monitoredApp.exposeExecutorMetrics
    /\ monitoredApp.driverJavaOptions
          = PointerTo("-Dlog4j.debug " \o javaOptionOf(monitoredApp))
    /\ monitoredApp.executorJavaOptions = PointerTo("-verbose:gc")
    /\ monitoredApp.executorAnnotations = EmptyMap

-----------------------------------------------------------------------------
(* Properties of the scheduling adapter.                                   *)

\* Schedule has computed task groups for the application.
Scheduled == scheduling.calls > 0

\* The value of an optional count, 0 when it is unset.
CountOrZero(pointer) == IF pointer.set THEN pointer.value ELSE 0

\* The executor counts an application declares.
DeclaredExecutorCounts(app) ==
    { CountOrZero(app.instances),
      IF app.dynamicAllocation.set
      THEN CountOrZero(app.dynamicAllocation.minExecutors) ELSE 0,
      IF app.dynamicAllocation.set
      THEN CountOrZero(app.dynamicAllocation.initialExecutors) ELSE 0 }

\* C22: in the task groups of Schedule the driver group has minimum member
\* count 1, and the executor group has the largest of the instances, the
\* dynamic-allocation minimum and the dynamic-allocation initial executors, each
\* 0 when unset; instances 4, initial 8 and minimum 2 give 8.
C22_MinMemberCounts ==
    Scheduled =>
        /\ scheduling.taskGroups[1].name = "spark-driver"
        /\ scheduling.taskGroups[1].minMember = 1
        /\ scheduling.taskGroups[2].name = "spark-executor"
        /\ scheduling.taskGroups[2].minMember \in DeclaredExecutorCounts(scheduledApp)
        /\ \A n \in DeclaredExecutorCounts(scheduledApp) :
              scheduling.taskGroups[2].minMember >= n
        /\ ( /\ scheduledApp.instances = PointerTo(4)
             /\ scheduledApp.dynamicAllocation.set
             /\ scheduledApp.dynamicAllocation.minExecutors = PointerTo(2)
             /\ scheduledApp.dynamicAllocation.initialExecutors = PointerTo(8) )
           => scheduling.taskGroups[2].minMember = 8

\* C22 witness: Schedule ran on 4 instances with initial 8 and minimum 2, and
\* the executor group asks for 8 members.
C22_Witness ==
    /\ Scheduled
    /\ scheduledApp.instances = PointerTo(4)
    /\ scheduledApp.dynamicAllocation.set
    /\ scheduledApp.dynamicAllocation.minExecutors = PointerTo(2)
    /\ scheduledApp.dynamicAllocation.initialExecutors = PointerTo(8)
    /\ scheduling.taskGroups[2].minMember = 8

\* The number N of the "<N>Mi" string a task group gives as its memory.
EmittedMiB(group) ==
    ParseNat(SubSeq(group.minResource["memory"], 1,
                    Len(group.minResource["memory"]) - 2))

\* The overhead factor the application is to be given: tenths of its explicit
\* factor, or of the default of its kind.
ExpectedFactorTenths(app) ==
    IF app.memoryOverheadFactor.set
    THEN CASE app.memoryOverheadFactor.value = "0.3" -> 3
    ELSE IF app.type \in {"Java", "Scala"} THEN 1 ELSE 4

\* Ten times base memory plus overhead of a role, in MiB.
ExpectedMemoryTenths(app, role) ==
    LET base == byteStringAsMiB(role.memory)
        byFactor == base * ExpectedFactorTenths(app)
    IN  IF role.memoryOverhead.set
        THEN 10 * (base + byteStringAsMiB(role.memoryOverhead.value))
        ELSE 10 * base + (IF byFactor >= 3840 THEN byFactor ELSE 3840)

\* The memory of the task group is "<N>Mi" with N less than one MiB away from
\* base memory plus overhead of the role.
MemoryIsBasePlusOverhead(app, role, group) ==
    /\ EndsWith(group.minResource["memory"], "Mi")
    /\ 10 * EmittedMiB(group) > ExpectedMemoryTenths(app, role) - 10
    /\ 10 * EmittedMiB(group) < ExpectedMemoryTenths(app, role) + 10

\* C23: the minimum memory of a task group is base memory plus overhead, the
\* overhead being the explicit memory overhead of the role when set and
\* otherwise the larger of 384 MiB and base memory times the factor, the factor
\* being the explicit factor of the application when present and otherwise 0.1
\* for JVM kinds and 0.4 for the others: 512 MiB Scala gives 896Mi, 64g with
\* 2g explicit overhead gives 67584Mi, 1g Python gives 1433Mi.
C23_MemoryIsBasePlusOverhead ==
    Scheduled =>
        /\ MemoryIsBasePlusOverhead(scheduledApp, scheduledApp.driver,
                                    scheduling.taskGroups[1])
        /\ MemoryIsBasePlusOverhead(scheduledApp, scheduledApp.executor,
                                    scheduling.taskGroups[2])
        /\ \A i \in {1, 2} :
              LET role == IF i = 1 THEN scheduledApp.driver ELSE scheduledApp.executor
                  memory == scheduling.taskGroups[i].minResource["memory"]
              IN  /\ ( /\ role.memory = "512m" /\ ~role.memoryOverhead.set
                       /\ scheduledApp.type = "Scala"
                       /\ ~scheduledApp.memoryOverheadFactor.set )
                      => memory = "896Mi"
                  /\ (role.memory = "64g" /\ role.memoryOverhead = PointerTo("2g"))
                      => memory = "67584Mi"
                  /\ ( /\ role.memory = "1g" /\ ~role.memoryOverhead.set
                       /\ scheduledApp.type = "Python"
                       /\ ~scheduledApp.memoryOverheadFactor.set )
                      => memory = "1433Mi"

\* C23 witness: Schedule ran on a Python application without explicit factor
\* whose driver has 1g and no explicit overhead and whose executor has 64g and
\* 2g of explicit overhead.
C23_Witness ==
    /\ Scheduled
    /\ scheduledApp.type = "Python" /\ ~scheduledApp.memoryOverheadFactor.set
    /\ scheduledApp.driver.memory = "1g" /\ ~scheduledApp.driver.memoryOverhead.set
    /\ scheduling.taskGroups[1].minResource["memory"] = "1433Mi"
    /\ scheduledApp.executor.memory = "64g"
    /\ scheduledApp.executor.memoryOverhead = PointerTo("2g")
    /\ scheduling.taskGroups[2].minResource["memory"] = "67584Mi"

\* The roles of the application next to their task groups.
RolesAndGroups ==
    { <<scheduledApp.driver, scheduling.taskGroups[1]>>,
      <<scheduledApp.executor, scheduling.taskGroups[2]>> }

\* C24 (as claimed): base memory plus overhead is rounded up to whole MiB before
\* it is emitted as "<N>Mi": N is the least whole number not below the sum.
C24_MemoryRoundedUp ==
    Scheduled =>
        \A rg \in RolesAndGroups :
            /\ EndsWith(rg[2].minResource["memory"], "Mi")
            /\ 10 * EmittedMiB(rg[2]) >= ExpectedMemoryTenths(scheduledApp, rg[1])
            /\ 10 * EmittedMiB(rg[2]) < ExpectedMemoryTenths(scheduledApp, rg[1]) + 10

\* C24 (amended): base memory plus overhead is rounded down to whole MiB before
\* it is emitted as "<N>Mi": N is the greatest whole number not above the sum;
\* 8192 MiB with factor 0.3 is emitted as 10649Mi.
C24_MemoryRoundedDown ==
    Scheduled =>
        \A rg \in RolesAndGroups :
            /\ EndsWith(rg[2].minResource["memory"], "Mi")
            /\ 10 * EmittedMiB(rg[2]) <= ExpectedMemoryTenths(scheduledApp, rg[1])
            /\ 10 * EmittedMiB(rg[2]) > ExpectedMemoryTenths(scheduledApp, rg[1]) - 10
            /\ ( /\ rg[1].memory = "8g" /\ ~rg[1].memoryOverhead.set
                 /\ scheduledApp.memoryOverheadFactor = PointerTo("0.3") )
               => rg[2].minResource["memory"] = "10649Mi"

\* C24 witness: Schedule ran on a driver of 8g with the explicit factor 0.3,
\* whose sum of 10649.6 MiB is emitted as 10649Mi.
C24_Witness ==
    /\ Scheduled
    /\ scheduledApp.driver.memory = "8g" /\ ~scheduledApp.driver.memoryOverhead.set
    /\ scheduledApp.memoryOverheadFactor = PointerTo("0.3")
    /\ ExpectedMemoryTenths(scheduledApp, scheduledApp.driver) = 106496
    /\ scheduling.taskGroups[1].minResource["memory"] = "10649Mi"

\* A core count written as a bare integer string.
BareInteger(cores) == CASE cores = 1 -> "1" [] cores = 4 -> "4" [] cores = 8 -> "8"

\* C25: the minimum cpu of a task group is the explicit core request of the role
\* as it stands when one is set, and otherwise the core count of the role as a
\* bare integer string, whatever the core limit: core request "2000m" with 4
\* cores gives "2000m", 1 core with core limit "1200m" gives "1".
C25_CpuFromCoreRequestOrCores ==
    Scheduled =>
        \A rg \in RolesAndGroups :
            /\ rg[2].minResource["cpu"] =
                  IF rg[1].coreRequest.set THEN rg[1].coreRequest.value
                  ELSE BareInteger(rg[1].cores)
            /\ (rg[1].coreRequest = PointerTo("2000m") /\ rg[1].cores = 4)
                  => rg[2].minResource["cpu"] = "2000m"
            /\ ( /\ ~rg[1].coreRequest.set /\ rg[1].cores = 1
                 /\ rg[1].coreLimit = PointerTo("1200m") )
                  => rg[2].minResource["cpu"] = "1"

\* C25 witness: Schedule ran on a driver of 4 cores with core request "2000m"
\* and an executor of 1 core with core limit "1200m" and no core request.
C25_Witness ==
    /\ Scheduled
    /\ scheduledApp.driver.coreRequest = PointerTo("2000m")
    /\ scheduledApp.driver.cores = 4
    /\ scheduling.taskGroups[1].minResource["cpu"] = "2000m"
    /\ ~scheduledApp.executor.coreRequest.set
    /\ scheduledApp.executor.cores = 1
    /\ scheduledApp.executor.coreLimit = PointerTo("1200m")
    /\ scheduling.taskGroups[2].minResource["cpu"] = "1"

\* C26: the node selector of a task group, mergeNodeSelector of the selector of
\* the application and that of the role, has the keys of both, with the value of
\* the role on every key of the role and the value of the application on the
\* others; it is the nil map, not an empty one, exactly when neither has an
\* entry; a role without selector gets the selector of the application.
C26_MergedNodeSelector ==
    Scheduled =>
        \A rg \in RolesAndGroups :
            LET app == scheduledApp.nodeSelector.m
                role == rg[1].nodeSelector.m
                merged == rg[2].nodeSelector
            IN  /\ DOMAIN merged.m = DOMAIN app \cup DOMAIN role
                /\ \A k \in DOMAIN role : merged.m[k] = role[k]
                /\ \A k \in DOMAIN app \ DOMAIN role : merged.m[k] = app[k]
                /\ merged.nil <=> (DOMAIN app = {} /\ DOMAIN role = {})
                /\ (DOMAIN role = {} /\ DOMAIN app # {}) => merged = MapOf(app)

\* C26 witness: Schedule ran on an application with selector {key: value} whose
\* driver has {key: newvalue, key2: value2} and whose executor has no selector.
C26_Witness ==
    /\ Scheduled
    /\ scheduledApp.nodeSelector = MapOf(Entry("key", "value"))
    /\ scheduledApp.driver.nodeSelector
          = MapOf(Put(Entry("key", "newvalue"), "key2", "value2"))
    /\ scheduling.taskGroups[1].nodeSelector
          = MapOf(Put(Entry("key", "newvalue"), "key2", "value2"))
    /\ scheduledApp.executor.nodeSelector = NilMap
    /\ scheduling.taskGroups[2].nodeSelector = MapOf(Entry("key", "value"))

\* A step of Schedule.
ScheduleStep == scheduling'.calls = scheduling.calls + 1

\* The labels of a role after the call: those before it, and the queue label;
\* and the task group of the call is without the queue label unless the role
\* had it before.
QueueLabelAdded(before, after, group) ==
    /\ ~after.nil
    /\ DOMAIN after.m = DOMAIN before.m \cup {"queue"}
    /\ after.m["queue"] = scheduledApp.queue.value
    /\ \A k \in DOMAIN before.m \ {"queue"} : after.m[k] = before.m[k]
    /\ "queue" \notin DOMAIN before.m => "queue" \notin DOMAIN group.labels.m

\* C27: Schedule writes the list of task groups as one JSON annotation of the
\* driver and of no one else; when the application names a queue it also sets
\* the queue label to that queue on the driver and on the executor, and a queue
\* label it adds is not among the labels of the task groups of that call.
C27_AnnotationAndQueueLabels ==
    [][ ScheduleStep
        => /\ ~scheduledApp'.driver.annotations.nil
           /\ DOMAIN scheduledApp'.driver.annotations.m
                 = DOMAIN scheduledApp.driver.annotations.m
                      \cup {"yunikorn.apache.org/task-groups"}
           /\ scheduledApp'.driver.annotations.m["yunikorn.apache.org/task-groups"]
                 = MarshalTaskGroups(scheduling'.taskGroups)
           /\ StartsWith(
                 scheduledApp'.driver.annotations.m["yunikorn.apache.org/task-groups"],
                 "[{\"name\":\"spark-driver\",\"minMember\":1,")
           /\ scheduledApp'.executor.annotations = scheduledApp.executor.annotations
           /\ "yunikorn.apache.org/task-groups"
                 \notin DOMAIN scheduledApp'.executor.annotations.m
           /\ scheduledApp.queue.set
                 => /\ QueueLabelAdded(scheduledApp.driver.labels,
                                       scheduledApp'.driver.labels,
                                       scheduling'.taskGroups[1])
                    /\ QueueLabelAdded(scheduledApp.executor.labels,
                                       scheduledApp'.executor.labels,
                                       scheduling'.taskGroups[2]) ]_vars

\* C27 witness: after one call on an application of queue root.default whose
\* executor had the label {label: value}, the driver carries the annotation and
\* the queue label, the executor carries its label and the queue label and no
\* annotation, and the executor group has the label of the executor alone.
C27_Witness ==
    /\ scheduling.calls = 1
    /\ scheduledApp.queue = PointerTo("root.default")
    /\ "yunikorn.apache.org/task-groups" \in DOMAIN scheduledApp.driver.annotations.m
    /\ scheduledApp.driver.labels = MapOf(Entry("queue", "root.default"))
    /\ scheduledApp.executor.labels
          = MapOf(Put(Entry("label", "value"), "queue", "root.default"))
    /\ scheduledApp.executor.annotations = NilMap
    /\ scheduling.taskGroups[2].labels = MapOf(Entry("label", "value"))

-----------------------------------------------------------------------------
(* Robustness of the admission webhook handler.                            *)

\* C29 (as claimed): for every body that decodes to an AdmissionReview, with a
\* request object or without, serve runs to its end without a runtime panic and
\* hands an AdmissionReview to the response writer; when that review carries a
\* response and the request is present, the UID of the response is that of the
\* request.
C29_DecodableReviewNeverPanics ==
    [][ WebhookServeStep =>
          LET r == httpRequest'.request
              out == httpResponse'
          IN  (ReachesDecoding(r) /\ r.body.bytes.enc = "review")
                 => /\ ~out.panic
                    /\ out.review.built
                    /\ (HasResponse(out) /\ r.body.bytes.review.present)
                          => out.review.response.uid = RequestOf(r).uid
        ]_vars

-----------------------------------------------------------------------------
(* The application-level metrics of exportMetrics.                         *)

\* What a call did to the counters and the gauge of the application: the submit
\* counter, the running gauge up and down, the success, failure and
\* failed-submission counters.
ApplicationCounts(effects) ==
    <<effects.sparkAppSubmitCount, effects.sparkAppRunningCountInc,
      effects.sparkAppRunningCountDec, effects.sparkAppSuccessCount,
      effects.sparkAppFailureCount, effects.sparkAppFailedSubmissionCount>>

\* C30: a call of exportMetrics changes the counters and the gauge of the
\* application only when the new application state differs from the old one,
\* and then as the new state says: Submitted, submit counter up; Running,
\* running gauge up; Succeeding, running gauge down and success counter up;
\* Failing, running gauge down and failure counter up; FailedSubmission,
\* failed-submission counter up; any other state, nothing. The summaries of the
\* execution time change on no other transition than into Succeeding or Failing.
C30_ApplicationMetricsFollowTheNewState ==
    [][ LET old == appStatus.state
            new == appStatus'.state
        IN  /\ ApplicationCounts(metricEffects') =
                  IF new = old THEN <<0, 0, 0, 0, 0, 0>>
                  ELSE CASE new = "SUBMITTED" -> <<1, 0, 0, 0, 0, 0>>
                         [] new = "RUNNING" -> <<0, 1, 0, 0, 0, 0>>
                         [] new = "SUCCEEDING" -> <<0, 0, 1, 1, 0, 0>>
                         [] new = "FAILING" -> <<0, 0, 1, 0, 1, 0>>
                         [] new = "SUBMISSION_FAILED" -> <<0, 0, 0, 0, 0, 1>>
                         [] OTHER -> <<0, 0, 0, 0, 0, 0>>
            /\ (new = old \/ new # "SUCCEEDING")
                  => metricEffects'.sparkAppSuccessExecutionTime = <<>>
            /\ (new = old \/ new # "FAILING")
                  => metricEffects'.sparkAppFailureExecutionTime = <<>> ]_vars

\* C30 witness: the last call reported the application as Failing for the first
\* time: the running gauge went down and the failure counter up, nothing else.
C30_Witness ==
    /\ appStatus.state = "FAILING"
    /\ ApplicationCounts(metricEffects) = <<0, 0, 1, 0, 1, 0>>

-----------------------------------------------------------------------------
(* The end of the certificate reload goroutine.                            *)

\* Stop() has closed the stop channel and stopped the ticker.
StopReturned == stopper = "returned"

\* The reload goroutine leaves its select for updateCert.
ReloadBegins == reloader.pc = "select" /\ reloader'.pc = "load"

\* C31: once Stop has closed the stop channel and stopped the ticker, the reload
\* goroutine, if it was started, exits in the end; a reload it begins after that
\* takes a tick that was pending, and with the ticker stopped no tick comes
\* after it, so that at most one reload begins; and once the goroutine has
\* exited nothing is reloaded any more.
C31_ReloaderExitsAfterStop ==
    /\ (StopReturned /\ reloader.pc # "notStarted") ~> (reloader.pc = "exited")
    /\ [][ (StopReturned /\ ReloadBegins)
              => (tickerStopped /\ tickerC /\ ~tickerC') ]_vars
    /\ [][ tickerStopped => (tickerStopped' /\ (tickerC' => tickerC)) ]_vars
    /\ [][ reloader.pc = "exited"
              => /\ reloader'.pc = "exited"
                 /\ currentCert' = currentCert
                 /\ reload' = reload ]_vars

\* C31 witness: Stop has returned and the goroutine has exited after a reload
\* that stored another certificate than the one loaded at the start.
C31_Witness ==
    /\ StopReturned
    /\ reloader.pc = "exited"
    /\ reload.result = "ok"
    /\ currentCert # reload.before
    /\ ~tickerC

-----------------------------------------------------------------------------
(* What a failed Start leaves behind.                                      *)

\* C32 (as claimed): when WebHook.Start has returned the error of a failed
\* self-registration, the certificate reload goroutine is not running and the
\* server is not serving.
C32_FailedStartLeavesNothingRunning ==
    ( /\ hook.pc = "idle"
      /\ Len(calls) > 0
      /\ LastCall.op = "selfRegistration"
      /\ LastCall.err )
    => /\ reloader.pc \in {"notStarted", "exited"}
       /\ ~server.listening

-----------------------------------------------------------------------------
(* The running gauges over a sequence of exportMetrics calls.              *)

\* The executors the status holds in the Running state.
RunningExecutors(status) ==
    { e \in DOMAIN status.executorState : status.executorState[e] = "RUNNING" }

\* C33 (as claimed): in every call of a sequence of exportMetrics calls, the
\* executor running gauge goes up once for each executor that is Running in the
\* new status and was not in the old one, and down once for each executor that
\* was Running in the old status and is not in the new one (whatever state it has
\* now, or gone from the map) and for no other executor, so that the gauge
\* follows the number of executors currently Running.
C33_ExecutorGaugeCountsRunningExecutors ==
    [][ /\ metricEffects'.sparkAppExecutorRunningCountInc
             = Cardinality(RunningExecutors(appStatus') \ RunningExecutors(appStatus))
        /\ metricEffects'.sparkAppExecutorRunningCountDec
             = Cardinality(RunningExecutors(appStatus) \ RunningExecutors(appStatus')) ]_vars

\* C34 (as claimed): in every call of a sequence of exportMetrics calls, the
\* application running gauge goes up exactly when the application enters the
\* Running state and down exactly when it leaves the Running state, for
\* Succeeding, Failing or any other state, so that every decrement is matched by
\* an earlier increment and the gauge follows whether the application is Running.
C34_ApplicationGaugeCountsRunningApplication ==
    [][ /\ metricEffects'.sparkAppRunningCountInc
             = IF appStatus.state # "RUNNING" /\ appStatus'.state = "RUNNING"
               THEN 1 ELSE 0
        /\ metricEffects'.sparkAppRunningCountDec
             = IF appStatus.state = "RUNNING" /\ appStatus'.state # "RUNNING"
               THEN 1 ELSE 0 ]_vars

-----------------------------------------------------------------------------
(* Pods without a submission ID.                                           *)

\* C36 (as claimed): a notification about a pod that carries an
\* application-name label and no submission-ID label calls the enqueue function
\* only if the cached index holds an application of that name in the pod's
\* namespace.
C36_UnknownApplicationNeverEnqueued ==
    [][ (RouterHandlerStep
           /\ DeliveredHasPod'
           /\ HasLabel(DeliveredPod'.labels, SparkAppNameLabel)
           /\ ~HasLabel(DeliveredPod'.labels, SubmissionIDLabel)
           /\ enqueued' # <<>>)
        => ListerGet(applicationLister, DeliveredPod'.namespace,
                     Label(DeliveredPod'.labels, SparkAppNameLabel)).found ]_vars

-----------------------------------------------------------------------------
(* Registration of the metrics.                                            *)

\* The metrics a call of exportMetrics has updated, by their field names.
UpdatedMetrics(effects) ==
    { m \in newSparkAppMetrics :
        CASE m = "sparkAppRunningCount" ->
                effects.sparkAppRunningCountInc + effects.sparkAppRunningCountDec > 0
          [] m = "sparkAppExecutorRunningCount" ->
                effects.sparkAppExecutorRunningCountInc
                    + effects.sparkAppExecutorRunningCountDec > 0
          [] m \in {"sparkAppSuccessExecutionTime", "sparkAppFailureExecutionTime"} ->
                effects[m] # <<>>
          [] OTHER -> effects[m] > 0 }

\* C35 (as claimed): every metric that newSparkAppMetrics makes and a call of
\* exportMetrics has updated, the failed-submission counter among them, is one
\* that registerMetrics registers.
C35_UpdatedMetricsAreRegistered ==
    UpdatedMetrics(metricEffects) \subseteq registerMetrics

-----------------------------------------------------------------------------
(* Failures while the monitoring ConfigMap is ensured.                     *)

\* The call is between its Get and the end of its Create or Update.
EnsuringConfigMap == invocation.pc \in {"get", "create", "update"}

\* C37: a call of configPrometheusMonitoring that is ensuring the ConfigMap
\* leaves the application spec as it is; when it ends there, after a failed Get,
\* a failed Create, a failed Update or a conflict on the last attempt, it
\* returns an error, having written nothing to the ConfigMap and nothing to the
\* application spec; it goes on to the application spec only after its write of
\* the ConfigMap succeeded.
C37_FailedEnsureReturnsErrorAndKeepsSpec ==
    [][ EnsuringConfigMap
        => /\ monitoredApp' = monitoredApp
           /\ invocation'.pc = "idle"
                => /\ invocation'.returned /\ invocation'.err
                   /\ ~invocation'.wrote
                   /\ configMaps' = configMaps
           /\ invocation'.pc = "configure" => invocation'.wrote
           /\ invocation'.pc \in {"idle", "configure", "get", "create", "update"} ]_vars

\* C37 witness: the call has returned an error after five Updates that each met
\* a conflict.
C37_Witness ==
    /\ invocation.returned /\ invocation.err
    /\ invocation.writes = <<"Update", "Update", "Update", "Update", "Update">>
    /\ ~invocation.wrote

-----------------------------------------------------------------------------
(* configPrometheusMonitoring called again on an application.              *)

\* An earlier call has written the application spec.
AlreadyConfigured(app) == "spark.metrics.namespace" \in DOMAIN app.sparkConf

\* C38 (as claimed): a call of configPrometheusMonitoring on an application an
\* earlier call has configured leaves the Spark configuration, the annotations
\* and the java options of the application as that call left them, so that the
\* java-agent option stays in the java options of an exposed role exactly once.
C38_SecondCallChangesNothing ==
    [][ (invocation.pc = "configure" /\ AlreadyConfigured(monitoredApp))
        => monitoredApp' = monitoredApp ]_vars

\* C39 (as claimed): a call whose Create finds the ConfigMap made in the
\* meantime by a concurrent call for the same application, with the computed
\* data, returns without an error.
C39_LostCreateIsNoFailure ==
    [][ ( /\ invocation.pc = "create"
          /\ configMaps[monitoredApp.namespace].exists
          /\ configMaps[monitoredApp.namespace].data
                = buildPrometheusConfigMap(monitoredApp)
          /\ invocation'.returned )
        => ~invocation'.err ]_vars

-----------------------------------------------------------------------------
(* Properties of upgradeCRDs.                                              *)

\* A step of the loop over the CRD files.
UpgradeStep == upgrade.pc = "loop" /\ upgrade'.index # upgrade.index

\* C40: every round of the loop of upgradeCRDs goes on to the next file,
\* whatever happened to this one; an unreadable file, a CRD the API server does
\* not hold (none is created) or does not hand out, and a spec semantically
\* equal to the stored one leave every stored CRD as it is; otherwise the stored
\* CRD of the file's name is left as it is (the Update failed) or has the
\* defaulted spec of the file and everything else as before, and no other CRD
\* changes; after the last file the function returns nil.
C40_EveryFileHandledOnItsOwn ==
    [][ /\ UpgradeStep
          => LET file == crdFiles[upgrade.index]
             IN  /\ upgrade'.pc = "loop"
                 /\ upgrade'.index = upgrade.index + 1
                 /\ ~upgrade'.err
                 /\ crdFiles' = crdFiles
                 /\ ~file.readable => storedCRDs' = storedCRDs
                 /\ file.readable
                      => LET old == storedCRDs[file.name]
                             spec == SetDefaults_CustomResourceDefinition(file).spec
                         IN  /\ \A name \in CRDNames \ {file.name} :
                                    storedCRDs'[name] = storedCRDs[name]
                             /\ ~old.exists => ~storedCRDs'[file.name].exists
                             /\ (old.exists /\ SemanticDeepEqual(old.spec, spec))
                                   => storedCRDs' = storedCRDs
                             /\ old.exists
                                   => \/ storedCRDs'[file.name] = old
                                      \/ storedCRDs'[file.name]
                                            = [old EXCEPT !.spec = spec]
                             /\ upgrade'.did[upgrade.index] = "updated"
                                   <=> storedCRDs' # storedCRDs
        /\ (upgrade.pc = "loop" /\ upgrade'.pc # "loop")
             => /\ upgrade.index = Len(crdFiles) + 1
                /\ upgrade'.pc = "returned"
                /\ ~upgrade'.err
                /\ Len(upgrade'.did) = Len(crdFiles) ]_vars

\* C40 witness: the call has returned nil after two files; the first, of a CRD
\* the API server does not hold, was passed over and nothing was created, the
\* second was written to its CRD, whose labels and status are as before.
C40_Witness ==
    /\ upgrade.pc = "returned" /\ ~upgrade.err
    /\ upgrade.did = <<"get failed", "updated">>
    /\ Len(crdFiles) = 2
    /\ crdFiles[1].readable /\ crdFiles[2].readable
    /\ crdFiles[1].name # crdFiles[2].name
    /\ ~storedCRDs[crdFiles[1].name].exists
    /\ storedCRDs[crdFiles[2].name].labels = "labels at the API server"
    /\ storedCRDs[crdFiles[2].name].status = "Established"
    /\ storedCRDs[crdFiles[2].name].spec.shortNames.nil

====
